---- MODULE Spec2Model ----
(***************************************************************************)
(* Model of loccount: the concurrent tree walker (Walk, WalkState,         *)
(* visitChannel, visitFile), the pre-filter (filter) and the consumer loop *)
(* of main, over a small file tree whose entries are drawn in Init.        *)
(***************************************************************************)
EXTENDS Integers, Sequences, FiniteSets, TLC

(* ---------------- bounds of the model ---------------- *)
\* walkers := 16 in Walk, scaled down
Walkers == 2
\* depth of the visit queue (make(chan VisitData, 1024)), scaled down
QueueCap == 1
\* depth of the output pipeline (chandepth), scaled down
PipeCap == 1
\* at most this many entries of the tree are not plain files or directories
MaxOdd == 2

(* ---------------- the file tree ---------------- *)
Nodes == 1 .. 6

RootNode == CHOOSE n \in Nodes : \A m \in Nodes : n <= m

\* readDirNames: the sorted names of a directory's entries
ChildNames(n) ==
    IF n = RootNode THEN <<2, 3, 4>>
    ELSE IF n = 2 THEN <<5>>
    ELSE IF n = 3 THEN <<6>>
    ELSE <<>>

\* the directory an entry is named in (the root stands for its own parent)
ParentOf(n) ==
    IF n = RootNode THEN RootNode
    ELSE CHOOSE p \in Nodes :
             \E i \in 1 .. Len(ChildNames(p)) : ChildNames(p)[i] = n

\* What a directory entry can be:
\*   dir      a readable directory with an unremarkable name
\*   reg      a regular source file that passes the pre-filter
\*   skip     a regular file with an ignored suffix (".o")
\*   dotdir   a directory whose name starts with a dot
\*   baddir   a directory that cannot be read
\*   nolstat  an entry on which Lstat fails
\*   dotlink  a symbolic link, named with a leading dot, to a directory
\*   noopen   a regular file that passes the pre-filter but cannot be opened
PlainKinds == {"dir", "reg", "skip"}
OddKinds == {"dotdir", "baddir", "nolstat", "dotlink", "noopen"}
Kinds == PlainKinds \cup OddKinds

\* error values: nil, filepath.SkipDir, and the errors of the system calls
None == <<"nil", 0>>
SkipDir == <<"SkipDir", 0>>

\* os.Lstat(path): "fail", or the type of the entry itself
LstatOf(k) ==
    CASE k \in {"dir", "dotdir", "baddir"} -> "dir"
      [] k \in {"reg", "skip", "noopen"} -> "reg"
      [] k = "dotlink" -> "symlink"
      [] OTHER -> "fail"

\* os.Stat(path): follows symbolic links
StatOf(k) ==
    CASE k \in {"dir", "dotdir", "baddir", "dotlink"} -> "dir"
      [] k \in {"reg", "skip", "noopen"} -> "reg"
      [] OTHER -> "fail"

\* file.info.IsDir() on the Lstat result
InfoIsDir(k) == LstatOf(k) = "dir"

isDirectory(k) == StatOf(k) = "dir"

isRegular(k) == StatOf(k) = "reg"

\* neverInterestingBySuffix[filepath.Ext(path)]
SuffixIgnored(k) == k = "skip"

\* strings.Contains(path, "/.") for an entry named with a leading dot
InfixIgnored(k) == k \in {"dotdir", "dotlink"}

\* os.Open succeeds (countContext.setup, readDirNames)
Openable(k) == k \notin {"noopen", "baddir", "nolstat"}

LstatErr(n) == <<"lstat", n>>
ReadDirErr(n) == <<"readdir", n>>

(* ---------------- classification, as the walker sees it ---------------- *)
\* Generic -> was_generated_automatically / hashbang / the scanners: each calls
\* ctx.setup(path), ignores its result and reads from ctx.rc; on a fresh
\* context whose open failed ctx.rc is nil and the read panics.
GenericCrashes(k) == ~Openable(k)

\* the line count Generic returns for the file at node n (the tree's contents
\* are fixed: file n holds n - 1 lines of code)
FileSloc(n) == n - 1

\* the SourceStat filter sends for node n
StatOfFile(n) == [Path |-> n, SLOC |-> FileSloc(n)]

(* ---------------- filter ---------------- *)
\* filter(path, info, err) for an entry of kind k: the value it returns,
\* whether it sends a record down the pipeline, and whether it panics.
\* The checks are taken in the order of the code.
filter(k, err) ==
    IF SuffixIgnored(k) THEN [ret |-> err, emit |-> FALSE, crash |-> FALSE]
    ELSE IF InfixIgnored(k) THEN
        IF isDirectory(k)
        THEN [ret |-> SkipDir, emit |-> FALSE, crash |-> FALSE]
        ELSE [ret |-> err, emit |-> FALSE, crash |-> FALSE]
    ELSE IF ~isRegular(k) THEN [ret |-> err, emit |-> FALSE, crash |-> FALSE]
    ELSE IF GenericCrashes(k) THEN [ret |-> err, emit |-> FALSE, crash |-> TRUE]
    ELSE [ret |-> err, emit |-> TRUE, crash |-> FALSE]

(* ================= classification of one file ================= *)
\* A file is [path, exec, openable, bytes].  Its bytes are a sequence of
\* one-character strings; a word the program looks for as a whole (a
\* generated-file phrase, an interpreter name) stands as one element.
NL == "\n"
DQ == "\""
SQ == "'"
BQ == "backquote"
BS == "\\"

\* one of the phrases of the variable generated, e.g. "generated by"
GEN == "generated by"

isspace(c) == c \in {" ", "\t", "\r", "\n", "\f"}

\* the look at the first 15 lines in was_generated_automatically
GenLines == 15

RECURSIVE Lines_partial(_)
\* a munchline that also returns the bytes after the last newline
Lines_partial(b) ==
    IF b = <<>> THEN <<>>
    ELSE IF \A j \in 1 .. Len(b) : b[j] # NL THEN <<b>>
    ELSE LET e == CHOOSE j \in 1 .. Len(b) :
                      b[j] = NL /\ \A h \in 1 .. j - 1 : b[h] # NL
         IN  <<SubSeq(b, 1, e)>> \o Lines_partial(SubSeq(b, e + 1, Len(b)))

RECURSIVE Lines(_)
\* what successive munchline calls return: the lines that end in a newline,
\* each with its newline; an unterminated last line is never returned
Lines(b) ==
    IF \A j \in 1 .. Len(b) : b[j] # NL THEN <<>>
    ELSE LET e == CHOOSE j \in 1 .. Len(b) :
                      b[j] = NL /\ \A h \in 1 .. j - 1 : b[h] # NL
         IN  <<SubSeq(b, 1, e)>> \o Lines(SubSeq(b, e + 1, Len(b)))

\* the sequence m stands in line at position p
OccursAt(line, m, p) ==
    /\ p + Len(m) - 1 <= Len(line)
    /\ \A j \in 1 .. Len(m) : line[p + j - 1] = m[j]

\* bytes.Index(line, m): the first position of m in line, 0 when absent
\* (one more than Go's index)
Index(line, m) ==
    IF \E p \in 1 .. Len(line) + 1 : OccursAt(line, m, p)
    THEN CHOOSE p \in 1 .. Len(line) + 1 :
             OccursAt(line, m, p) /\ \A h \in 1 .. p - 1 : ~OccursAt(line, m, h)
    ELSE 0

\* strings.Contains(s, name) for an interpreter name: the name stands in a
\* word of s that holds it ("sh" also in "csh" and "tclsh")
Holds(word, name) ==
    \/ word = name
    \/ name = "sh" /\ word \in {"csh", "tclsh"}
    \/ name = "tcl" /\ word = "tclsh"

Contains(line, name) == \E j \in 1 .. Len(line) : Holds(line[j], name)

RECURSIVE Trim(_)
\* bytes.Trim(line, " \t\r\n")
Trim(line) ==
    IF line = <<>> THEN line
    ELSE IF line[1] \in {" ", "\t", "\r", "\n"} THEN Trim(Tail(line))
    ELSE IF line[Len(line)] \in {" ", "\t", "\r", "\n"}
         THEN Trim(SubSeq(line, 1, Len(line) - 1))
    ELSE line

\* Then(v, F): the call v is made once and F goes on with what it returned
Then(v, F(_)) == CHOOSE r \in {F(x) : x \in {v}} : TRUE

(* ---------------- countContext ---------------- *)
\* new(countContext): every field zero; rc is "nil", "open" (a reader on an
\* open stream) or "closed" (a reader whose stream has been closed)
\* new(countContext).  Beside the fields of the struct the context keeps
\* the account of its streams: how many os.Open has handed out (opens), how
\* many of them are not closed (streams), and the most that were open at
\* one time (peak).
NewContext ==
    [nonblank |-> FALSE, lexfile |-> FALSE, last_char_was_newline |-> FALSE,
     line_number |-> 0, rc |-> "nil", opens |-> 0, streams |-> 0, peak |-> 0]

\* ctx.setup(path): on a failed open the context is left as it was; a
\* stream still open is no longer reachable once underlyingStream is
\* assigned again
setup(ctx, f) ==
    IF f.openable
    THEN Then(ctx, LAMBDA c :
             [ok |-> TRUE,
              ctx |-> [c EXCEPT !.rc = "open", !.line_number = 1,
                                !.opens = @ + 1, !.streams = @ + 1,
                                !.peak = IF c.streams + 1 > @
                                         THEN c.streams + 1 ELSE @]])
    ELSE [ok |-> FALSE, ctx |-> ctx]

\* a teardown that leaves the stream open
teardown_leak(ctx) == ctx

\* ctx.teardown(): Close on the stream (a nil stream answers with an error)
teardown(ctx) ==
    Then(ctx, LAMBDA c :
        IF c.rc = "open"
        THEN [c EXCEPT !.rc = "closed", !.streams = @ - 1]
        ELSE c)

\* a read through ctx.rc panics: rc is nil (nil dereference in bufio), or its
\* stream is closed (munchline and getachar panic on a read error)
ReadPanics(ctx) == ctx.rc # "open"

\* the outcome of a scan: whether it panicked, its value, the context it leaves
Outcome(p, v, c) == [panic |-> p, val |-> v, ctx |-> c]

(* ---------------- the probes ---------------- *)
\* the comment markers of the regular expression built in
\* was_generated_automatically: "*" and the winged leader ("*" alone for COBOL)
GenMarkers(eol) == IF eol = <<"*">> THEN {<<"*">>} ELSE {<<"*">>, eol}

\* cre.Find(ctx.line) != nil for "(\*|eol).*(?i:generated)"
MatchesGenerated(line, eol) ==
    \E m \in GenMarkers(eol) : \E p \in 1 .. Len(line) + 1 :
        /\ OccursAt(line, m, p)
        /\ \E q \in p + Len(m) .. Len(line) :
              /\ line[q] = GEN
              /\ \A h \in p + Len(m) .. q : line[h] # NL

Min(a, b) == IF a < b THEN a ELSE b

\* was_generated_automatically(ctx, path, eolcomment): setup's result is not
\* looked at; the loop reads a line before it tests the count
was_generated_automatically(ctx, f, eol) ==
    LET c1 == setup(ctx, f).ctx
        ls == Lines(f.bytes)
        hit == {j \in 1 .. Min(GenLines, Len(ls)) : MatchesGenerated(ls[j], eol)}
        read == IF hit # {}
                THEN CHOOSE j \in hit : \A h \in hit : j <= h
                ELSE Min(GenLines + 1, Len(ls))
    IN  IF ReadPanics(c1) THEN Outcome(TRUE, FALSE, c1)
        ELSE Outcome(FALSE, hit # {},
                     teardown([c1 EXCEPT !.line_number = @ + read]))

\* hashbang(ctx, path, langname): files nobody may execute are not read
hashbang(ctx, f, langname) ==
    LET c1 == setup(ctx, f).ctx
        ls == Lines(f.bytes)
    IN  IF ~f.exec THEN Outcome(FALSE, FALSE, ctx)
        ELSE IF c1.rc = "nil" THEN Outcome(TRUE, FALSE, c1)
        ELSE IF c1.rc = "closed" THEN Outcome(FALSE, FALSE, c1)
        ELSE Outcome(FALSE,
                     /\ ls # <<>>
                     /\ OccursAt(ls[1], <<"#", "!">>, 1)
                     /\ Contains(ls[1], langname),
                     teardown(c1))

\* has_keywords(ctx, path, lang, tells): does any line match any of the tells
has_keywords(ctx, f, tells) ==
    LET c1 == setup(ctx, f).ctx
        ls == Lines(f.bytes)
    IN  IF ReadPanics(c1) THEN Outcome(TRUE, FALSE, c1)
        ELSE Outcome(FALSE,
                     \E j \in 1 .. Len(ls) : \E t \in tells : Index(ls[j], t) > 0,
                     teardown([c1 EXCEPT !.line_number = @ + Len(ls)]))

\* really_is_lex
really_is_lex(ctx, f) ==
    has_keywords(ctx, f, {<<"%", "{">>, <<"%", "%">>, <<"%", "}">>})

\* the verifier field of a table row, applied
Verify(verifier, ctx, f) ==
    IF verifier = "really_is_lex" THEN really_is_lex(ctx, f)
    ELSE Outcome(FALSE, TRUE, ctx)

RECURSIVE CountLines_commentline(_, _)
\* CountLines taking a line that holds the comment leader for a comment line
CountLines_commentline(ls, eol) ==
    IF ls = <<>> THEN 0
    ELSE (IF Index(ls[1], eol) = 0 /\ Len(Trim(ls[1])) > 0 THEN 1 ELSE 0)
         + CountLines_commentline(Tail(ls), eol)

RECURSIVE CountLines(_, _)
\* the loop of genericCounter over the lines it is given
CountLines(ls, eol) ==
    IF ls = <<>> THEN 0
    ELSE LET i == Index(ls[1], eol)
             cut == IF i > 0 THEN SubSeq(ls[1], 1, i - 1) ELSE ls[1]
         IN  (IF Len(Trim(cut)) > 0 THEN 1 ELSE 0) + CountLines(Tail(ls), eol)

\* genericCounter(ctx, path, eolcomment, verifier)
genericCounter(ctx, f, eol, verifier) ==
    LET v == Verify(verifier, ctx, f)
        c1 == setup(v.ctx, f).ctx
        ls == Lines(f.bytes)
    IN  IF v.panic THEN v
        ELSE IF verifier # "nil" /\ ~v.val THEN Outcome(FALSE, 0, v.ctx)
        ELSE IF ReadPanics(c1) THEN Outcome(TRUE, 0, c1)
        ELSE Outcome(FALSE, CountLines(ls, eol),
                     teardown([c1 EXCEPT !.line_number = @ + Len(ls)]))

(* ---------------- the C-family scanner ---------------- *)
\* The state of one scan: the position of the next byte of the stream, the
\* locals of c_family_counter and the fields of the context it updates.
ScanStart(ctx) ==
    [pos |-> 1, mode |-> "NORMAL", comment_type |-> "BLOCK", sloc |-> 0,
     startline |-> 0, log |-> <<>>, nonblank |-> ctx.nonblank,
     lexfile |-> ctx.lexfile,
     last_char_was_newline |-> ctx.last_char_was_newline,
     line_number |-> ctx.line_number]

\* the zero byte ReadByte returns with io.EOF
NUL == ""

\* ctx.getachar(): the byte, whether it came with io.EOF, the state after
getachar(s, b) ==
    LET eof == s.pos > Len(b)
        c == IF eof THEN NUL ELSE b[s.pos]
    IN  [c |-> c, eof |-> eof,
         s |-> [s EXCEPT
                  !.pos = IF eof THEN @ ELSE @ + 1,
                  !.line_number = IF s.last_char_was_newline THEN @ + 1 ELSE @,
                  !.last_char_was_newline = (c = NL)]]

\* ctx.ispeek(c)
ispeek(s, b, c) == s.pos <= Len(b) /\ b[s.pos] = c

RECURSIVE CharLiteral(_, _)
\* the inner loop that consumes a 'x' value: read until a quote, a newline or
\* the end of the file
CharLiteral(s, b) ==
    LET g == getachar(s, b)
    IN  IF g.c = SQ \/ g.c = NL \/ g.eof THEN g ELSE CharLiteral(g.s, b)

\* log.Printf: one more line on the log of the scan
Logged(s, text, line) ==
    [s EXCEPT !.log = Append(@, [text |-> text, line |-> line])]

\* the turn of the loop of c_family_counter for byte c in mode NORMAL: the
\* byte the turn ends with and the state after it
ScanNormal(s, c, b, syn) ==
    LET next == getachar(s, b)
    IN  IF ~s.lexfile /\ c = DQ
        THEN [c |-> c, s |-> [s EXCEPT !.nonblank = TRUE, !.mode = "INSTRING",
                                       !.startline = s.line_number]]
        ELSE IF ~s.lexfile /\ c = SQ
        THEN LET g1 == getachar([s EXCEPT !.nonblank = TRUE], b)
                 g2 == IF g1.c = BS THEN getachar(g1.s, b) ELSE g1
                 g3 == CharLiteral(g2.s, b)
             IN  [c |-> g3.c, s |-> g3.s]
        ELSE IF c = syn.commentleader[1] /\ ispeek(s, b, syn.commentleader[2])
        THEN [c |-> next.c,
              s |-> [next.s EXCEPT !.mode = "INCOMMENT", !.comment_type = "BLOCK",
                                   !.startline = next.s.line_number]]
        ELSE IF /\ syn.eolcomment # <<>>
                /\ c = syn.eolcomment[1]
                /\ Len(syn.eolcomment) > 1
                /\ ispeek(s, b, syn.eolcomment[2])
        THEN [c |-> next.c,
              s |-> [next.s EXCEPT !.mode = "INCOMMENT",
                                   !.comment_type = "TRAILING",
                                   !.startline = next.s.line_number]]
        ELSE IF syn.multistring # <<>> /\ c = syn.multistring[1]
        THEN [c |-> c, s |-> [s EXCEPT !.mode = "INMULTISTRING",
                                       !.startline = s.line_number]]
        ELSE [c |-> c, s |-> [s EXCEPT !.nonblank = @ \/ ~isspace(c)]]

\* mode INSTRING without the escapes: a backslash is a byte like any other
ScanString_noescape(s, c, b, syn) ==
    LET nb == [s EXCEPT !.nonblank = @ \/ ~isspace(c)]
    IN  IF c = DQ THEN [c |-> c, s |-> [nb EXCEPT !.mode = "NORMAL"]]
        ELSE IF c = NL
        THEN [c |-> c,
              s |-> IF syn.eolwarn
                    THEN Logged(nb, "newline in string", nb.line_number)
                    ELSE nb]
        ELSE [c |-> c, s |-> nb]

\* mode INSTRING with the newline ending the string, as a warning might
ScanString_reset(s, c, b, syn) ==
    LET nb == [s EXCEPT !.nonblank = @ \/ ~isspace(c)]
    IN  IF c = DQ THEN [c |-> c, s |-> [nb EXCEPT !.mode = "NORMAL"]]
        ELSE IF c = BS /\ (ispeek(s, b, DQ) \/ ispeek(s, b, BS))
        THEN LET g == getachar(nb, b) IN [c |-> g.c, s |-> g.s]
        ELSE IF c = BS /\ ispeek(s, b, NL)
        THEN LET g == getachar(nb, b) IN [c |-> g.c, s |-> g.s]
        ELSE IF c = NL
        THEN [c |-> c,
              s |-> IF syn.eolwarn
                    THEN [Logged(nb, "newline in string", nb.line_number)
                              EXCEPT !.mode = "NORMAL"]
                    ELSE nb]
        ELSE [c |-> c, s |-> nb]

\* mode INSTRING: the closing quote, the escapes, the bare newline
ScanString(s, c, b, syn) ==
    LET nb == [s EXCEPT !.nonblank = @ \/ ~isspace(c)]
    IN  IF c = DQ THEN [c |-> c, s |-> [nb EXCEPT !.mode = "NORMAL"]]
        ELSE IF c = BS /\ (ispeek(s, b, DQ) \/ ispeek(s, b, BS))
        THEN LET g == getachar(nb, b) IN [c |-> g.c, s |-> g.s]
        ELSE IF c = BS /\ ispeek(s, b, NL)
        THEN LET g == getachar(nb, b) IN [c |-> g.c, s |-> g.s]
        ELSE IF c = NL
        THEN [c |-> c,
              s |-> IF syn.eolwarn
                    THEN Logged(nb, "newline in string", nb.line_number)
                    ELSE nb]
        ELSE [c |-> c, s |-> nb]

\* mode INMULTISTRING: only the delimiter is looked for
ScanMultistring(s, c, b, syn) ==
    LET nb == [s EXCEPT !.nonblank = @ \/ ~isspace(c)]
    IN  IF c = syn.multistring[1]
        THEN [c |-> c, s |-> [nb EXCEPT !.mode = "NORMAL"]]
        ELSE [c |-> c, s |-> nb]

\* mode INCOMMENT: the newline that ends a winged comment, the trailer that
\* ends a block comment
ScanComment(s, c, b, syn) ==
    LET next == getachar(s, b)
    IN  IF c = NL /\ s.comment_type = "TRAILING"
        THEN [c |-> c, s |-> [s EXCEPT !.mode = "NORMAL"]]
        ELSE IF /\ s.comment_type = "BLOCK"
                /\ c = syn.commenttrailer[1]
                /\ ispeek(s, b, syn.commenttrailer[2])
        THEN [c |-> next.c, s |-> [next.s EXCEPT !.mode = "NORMAL"]]
        ELSE [c |-> c, s |-> s]

\* one turn of the loop body above the newline test, on the byte c just read:
\* the byte last read and the state
ScanByte(s, c, b, syn) ==
    IF s.mode = "NORMAL" THEN ScanNormal(s, c, b, syn)
    ELSE IF s.mode = "INSTRING" THEN ScanString(s, c, b, syn)
    ELSE IF s.mode = "INMULTISTRING" THEN ScanMultistring(s, c, b, syn)
    ELSE ScanComment(s, c, b, syn)

\* EndOfLine counting a line of code twice
EndOfLine_double(s, c, b) ==
    IF c # NL THEN s
    ELSE [s EXCEPT !.sloc = IF s.nonblank THEN @ + 2 ELSE @,
                   !.nonblank = FALSE]

\* if c == '\n': count the line, and look for the % of a lex directive
EndOfLine(s, c, b) ==
    IF c # NL THEN s
    ELSE LET t == [s EXCEPT !.sloc = IF s.nonblank THEN @ + 1 ELSE @,
                            !.nonblank = FALSE]
         IN  IF ispeek(t, b, "%")
             THEN [t EXCEPT !.pos = @ + 1, !.lexfile = TRUE, !.nonblank = TRUE]
             ELSE t

RECURSIVE ScanLoop(_, _, _)
\* the for loop of c_family_counter, up to the break at io.EOF
ScanLoop(s, b, syn) ==
    LET g == getachar(s, b)
        r == ScanByte(g.s, g.c, b, syn)
    IN  IF g.eof THEN g.s
        ELSE ScanLoop(EndOfLine(r.s, r.c, b), b, syn)

\* the scan without the handling of EOF-without-EOL: a last line that has no
\* newline is not counted
c_family_scan_nopending(ctx, b, syn) ==
    [ScanLoop(ScanStart(ctx), b, syn) EXCEPT !.nonblank = FALSE]

\* the scan with the handling of EOF-without-EOL; mode and startline are
\* those the diagnostics report
c_family_scan(ctx, b, syn) ==
    Then(ScanLoop(ScanStart(ctx), b, syn), LAMBDA s :
        Then([s EXCEPT !.sloc = IF s.nonblank THEN @ + 1 ELSE @,
                       !.nonblank = FALSE,
                       !.mode = IF /\ s.mode = "INCOMMENT"
                                   /\ s.comment_type = "TRAILING"
                                THEN "NORMAL" ELSE @],
             LAMBDA t :
                 IF t.mode = "INCOMMENT"
                 THEN Logged(t, "terminated in comment", t.startline)
                 ELSE IF t.mode = "INSTRING"
                 THEN Logged(t, "terminated in string", t.startline)
                 ELSE t))

\* c_family_counter(ctx, path, syntax)
c_family_counter(ctx, f, syn) ==
    LET v == Verify(syn.verifier, ctx, f)
        c1 == setup(v.ctx, f).ctx
        s == c_family_scan(c1, f.bytes, syn)
    IN  IF v.panic THEN v
        ELSE IF syn.verifier # "nil" /\ ~v.val THEN Outcome(FALSE, 0, v.ctx)
        ELSE IF ReadPanics(c1) THEN Outcome(TRUE, 0, c1)
        ELSE Outcome(FALSE, s.sloc,
                     teardown([c1 EXCEPT
                         !.nonblank = s.nonblank,
                         !.lexfile = s.lexfile,
                         !.last_char_was_newline = s.last_char_was_newline,
                         !.line_number = s.line_number]))

(* ---------------- the Python scanner ---------------- *)
\* the constants dt and st, the triple-quote markers
DT == <<DQ, DQ, DQ>>
ST == <<SQ, SQ, SQ>>

\* i := bytes.Index(line, m); if i > -1 { line = line[:i] }
CutAt(line, m) ==
    IF Index(line, m) > 0 THEN SubSeq(line, 1, Index(line, m) - 1) ELSE line

\* bytes.HasPrefix(line, m)
HasPrefix(line, m) == OccursAt(line, m, 1)

\* triple_boundary(line)
triple_boundary(line) == Index(line, DT) > 0 \/ Index(line, ST) > 0

RECURSIVE DropEnclosed(_, _)
\* dtriple / striple .ReplaceAllLiteral(line, ""): the regular expression is
\* the marker, ONE character that is not a newline, the marker
DropEnclosed(line, q) ==
    IF line = <<>> THEN <<>>
    ELSE IF /\ OccursAt(line, q, 1)
            /\ Len(line) >= 2 * Len(q) + 1
            /\ line[Len(q) + 1] # NL
            /\ OccursAt(line, q, Len(q) + 2)
         THEN DropEnclosed(SubSeq(line, 2 * Len(q) + 2, Len(line)), q)
    ELSE <<line[1]>> \o DropEnclosed(Tail(line), q)

\* the number of blanks and tabs line begins with
LeadingBlanks(line) ==
    IF \A j \in 1 .. Len(line) : line[j] \in {" ", "\t"} THEN Len(line)
    ELSE (CHOOSE j \in 1 .. Len(line) :
              /\ line[j] \notin {" ", "\t"}
              /\ \A h \in 1 .. j - 1 : line[h] \in {" ", "\t"}) - 1

\* dlonely / slonely .ReplaceAllLiteral(line, ""): at the start of the line,
\* blanks, a quote, one or more characters that are not the quote, the quote
DropLonely(line, q) ==
    LET o == LeadingBlanks(line) + 1
        closers == {e \in o + 1 .. Len(line) : line[e] = q}
        c == CHOOSE e \in closers : \A h \in closers : e <= h
    IN  IF o <= Len(line) /\ line[o] = q /\ closers # {} /\ c > o + 1
        THEN SubSeq(line, c + 1, Len(line))
        ELSE line

\* dtrailer / strailer .ReplaceAllLiteral(line, repl): ".*" and the marker,
\* so everything up to the last marker of the line goes
Trailer(line, q, repl) ==
    LET ends == {p \in 1 .. Len(line) :
                    OccursAt(line, q, p) /\ \A h \in 1 .. p - 1 : line[h] # NL}
        last == CHOOSE p \in ends : \A h \in ends : h <= p
    IN  IF ends = {} THEN line
        ELSE repl \o SubSeq(line, last + Len(q), Len(line))

\* the state of the loop of pythonCounter
PyStart == [sloc |-> 0, isintriple |-> FALSE, isincomment |-> FALSE]

\* the line as the normal case leaves it, before the test for a boundary
PyNormalLine(line) ==
    CutAt(DropLonely(DropLonely(DropEnclosed(DropEnclosed(line, DT), ST), DQ), SQ),
          <<"#">>)

\* the line as the closing of a triple leaves it
PyClosedLine(line, isincomment) ==
    Trailer(Trailer(line, DT, IF isincomment THEN <<>> ELSE <<"x">>),
            ST, IF isincomment THEN <<>> ELSE <<"x">>)

\* one turn of the loop of pythonCounter on the line munchline returned
PyStep(s, raw) ==
    LET l0 == CutAt(raw, <<"#">>)
        ln == IF ~s.isintriple THEN PyNormalLine(l0)
              ELSE IF triple_boundary(l0) THEN PyClosedLine(l0, s.isincomment)
              ELSE l0
        opens == ~s.isintriple /\ triple_boundary(ln)
        closes == s.isintriple /\ triple_boundary(l0) /\ ~triple_boundary(ln)
        intriple == IF opens THEN TRUE ELSE IF closes THEN FALSE ELSE s.isintriple
        incomment ==
            IF opens /\ (HasPrefix(Trim(ln), DT) \/ HasPrefix(Trim(ln), ST))
            THEN TRUE
            ELSE IF closes THEN FALSE ELSE s.isincomment
    IN  [sloc |-> s.sloc + (IF ~incomment /\ Len(Trim(ln)) > 0 THEN 1 ELSE 0),
         isintriple |-> intriple, isincomment |-> incomment]

RECURSIVE PyRun(_, _)
\* the loop of pythonCounter over the lines it is given, from state s
PyRun(s, ls) == IF ls = <<>> THEN s ELSE PyRun(PyStep(s, ls[1]), Tail(ls))

\* pythonCounter(ctx, path)
pythonCounter(ctx, f) ==
    LET c1 == setup(ctx, f).ctx
        ls == Lines(f.bytes)
    IN  IF ReadPanics(c1) THEN Outcome(TRUE, 0, c1)
        ELSE Outcome(FALSE, PyRun(PyStart, ls).sloc,
                     teardown([c1 EXCEPT !.line_number = @ + Len(ls)]))

(* ---------------- the Perl scanner ---------------- *)
RECURSIVE TrimOf(_, _)
\* bytes.Trim(line, cutset)
TrimOf(line, cutset) ==
    IF line = <<>> THEN line
    ELSE IF line[1] \in cutset THEN TrimOf(Tail(line), cutset)
    ELSE IF line[Len(line)] \in cutset
         THEN TrimOf(SubSeq(line, 1, Len(line) - 1), cutset)
    ELSE line

Letters ==
    {"a", "b", "c", "d", "e", "f", "g", "h", "i", "j", "k", "l", "m", "n", "o",
     "p", "q", "r", "s", "t", "u", "v", "w", "x", "y", "z",
     "A", "B", "C", "D", "E", "F", "G", "H", "I", "J", "K", "L", "M", "N", "O",
     "P", "Q", "R", "S", "T", "U", "V", "W", "X", "Y", "Z"}

\* podheader.Match(line), for "^=[a-zA-Z]"
podheader(line) == Len(line) >= 2 /\ line[1] = "=" /\ line[2] \in Letters

\* the words the scanner looks for at the start of a line
CutWord == <<"=", "c", "u", "t">>
EndWord == <<"_", "_", "E", "N", "D", "_", "_">>
HereMark == <<"<", "<">>

\* the state of the loop of perlCounter; heredoc is <<>> for the empty string,
\* done is set by the break at __END__
PerlStart ==
    [sloc |-> 0, heredoc |-> <<>>, isinpod |-> FALSE, done |-> FALSE, read |-> 0]

\* the line as the loop of perlCounter looks at it
PerlLine(raw) == Trim(CutAt(raw, <<"#">>))

\* one turn of the loop of perlCounter on the line munchline returned: the
\* tests are taken in the order of the code
PerlStep(s, raw) ==
    LET line == PerlLine(raw)
        r == [s EXCEPT !.read = @ + 1]
        counted == [r EXCEPT !.sloc = IF Len(line) > 0 /\ ~s.isinpod
                                      THEN @ + 1 ELSE @]
    IN  IF s.done THEN s
        ELSE IF s.heredoc # <<>> /\ HasPrefix(line, s.heredoc)
             THEN [counted EXCEPT !.heredoc = <<>>]
        ELSE IF Index(line, HereMark) > 0
             THEN [counted EXCEPT !.heredoc =
                       TrimOf(SubSeq(line, Index(line, HereMark), Len(line)),
                              {"<", " ", "\t", DQ, SQ, ";", ","})]
        ELSE IF s.heredoc = <<>> /\ HasPrefix(line, CutWord)
             THEN [r EXCEPT !.isinpod = FALSE]
        ELSE IF s.heredoc = <<>> /\ podheader(line)
             THEN [r EXCEPT !.isinpod = TRUE]
        ELSE IF HasPrefix(line, EndWord)
             THEN [r EXCEPT !.done = TRUE]
        ELSE counted

RECURSIVE PerlRun(_, _)
\* the loop of perlCounter over the lines it is given, from state s
PerlRun(s, ls) == IF ls = <<>> THEN s ELSE PerlRun(PerlStep(s, ls[1]), Tail(ls))

\* perlCounter(ctx, path)
perlCounter(ctx, f) ==
    LET c1 == setup(ctx, f).ctx
        ls == Lines(f.bytes)
    IN  IF ReadPanics(c1) THEN Outcome(TRUE, 0, c1)
        ELSE Outcome(FALSE, PerlRun(PerlStart, ls).sloc,
                     teardown([c1 EXCEPT !.line_number =
                                             @ + PerlRun(PerlStart, ls).read]))

(* ---------------- the Pascal-like scanner ---------------- *)
\* one turn of the loop body of pascalCounter on the byte c just read
PascalByte(s, c, b, bracketcomments) ==
    IF s.mode = "NORMAL" THEN
        IF bracketcomments /\ c = "{" THEN [s EXCEPT !.mode = "INCOMMENT"]
        ELSE IF c = "(" /\ ispeek(s, b, "*")
             THEN [getachar(s, b).s EXCEPT !.mode = "INCOMMENT"]
        ELSE IF ~isspace(c) THEN [s EXCEPT !.nonblank = TRUE]
        ELSE IF c = NL
             THEN [s EXCEPT !.sloc = IF s.nonblank THEN @ + 1 ELSE @,
                            !.nonblank = FALSE]
        ELSE s
    ELSE \* INCOMMENT
        IF bracketcomments /\ c = "}" THEN [s EXCEPT !.mode = "NORMAL"]
        ELSE IF c = "*" /\ ispeek(s, b, ")")
             THEN [getachar(s, b).s EXCEPT !.mode = "NORMAL"]
        ELSE s

RECURSIVE PascalLoop(_, _, _)
\* the for loop of pascalCounter, up to the break at io.EOF
PascalLoop(s, b, bracketcomments) ==
    IF s.pos > Len(b) THEN getachar(s, b).s
    ELSE PascalLoop(PascalByte(getachar(s, b).s, b[s.pos], b, bracketcomments),
                    b, bracketcomments)

\* the scan with the handling of EOF-without-EOL
pascal_scan(ctx, b, bracketcomments) ==
    Then(PascalLoop(ScanStart(ctx), b, bracketcomments), LAMBDA s :
        Then([s EXCEPT !.sloc = IF s.nonblank THEN @ + 1 ELSE @,
                       !.nonblank = FALSE],
             LAMBDA t :
                 IF t.mode = "INCOMMENT"
                 THEN Logged(t, "terminated in comment", t.startline)
                 ELSE IF t.mode = "INSTRING"
                 THEN Logged(t, "terminated in string", t.startline)
                 ELSE t))

\* pascalCounter(ctx, path, syntax), for a row without a verifier
pascalCounter(ctx, f, syn) ==
    LET c1 == setup(ctx, f).ctx
        s == pascal_scan(c1, f.bytes, syn.bracketcomments)
    IN  IF ReadPanics(c1) THEN Outcome(TRUE, 0, c1)
        ELSE Outcome(FALSE, s.sloc,
                     teardown([c1 EXCEPT
                         !.nonblank = s.nonblank,
                         !.last_char_was_newline = s.last_char_was_newline,
                         !.line_number = s.line_number]))

(* ---------------- the Fortran-like scanner ---------------- *)
\* "[ \t]*$": blanks up to the end of the text (the newline munchline leaves
\* at the end of the line is not a blank, and $ stands for the end of the text)
BlankToEnd(line) == \A j \in 1 .. Len(line) : line[j] \in {" ", "\t"}

\* "(hpf|omp)[$]" at position p
Directive(line, p) ==
    \/ OccursAt(line, <<"h", "p", "f", "$">>, p)
    \/ OccursAt(line, <<"o", "m", "p", "$">>, p)

\* f90comment "^([ \t]*!|[ \t]*$)" and f90nocomment "^[ \t]*!(hpf|omp)[$]"
f90comment(line) ==
    \/ OccursAt(line, <<"!">>, LeadingBlanks(line) + 1)
    \/ BlankToEnd(line)
f90nocomment(line) ==
    /\ OccursAt(line, <<"!">>, LeadingBlanks(line) + 1)
    /\ Directive(line, LeadingBlanks(line) + 2)

\* f77comment "^([c*!]|[ \t]+!|[ \t]*$)" and f77nocomment "^[c*!](hpf|omp)[$]"
f77comment(line) ==
    \/ line # <<>> /\ line[1] \in {"c", "*", "!"}
    \/ LeadingBlanks(line) > 0 /\ OccursAt(line, <<"!">>, LeadingBlanks(line) + 1)
    \/ BlankToEnd(line)
f77nocomment(line) ==
    /\ line # <<>> /\ line[1] \in {"c", "*", "!"}
    /\ Directive(line, 2)

\* FortranComment reading every dialect as fixed form
FortranComment_fixedform(dialect, line) ==
    f77comment(line) /\ ~f77nocomment(line)

\* syntax.comment.Match(line) && !syntax.nocomment.Match(line), by dialect
FortranComment(dialect, line) ==
    IF dialect = "f90" THEN f90comment(line) /\ ~f90nocomment(line)
    ELSE f77comment(line) /\ ~f77nocomment(line)

RECURSIVE FortranRun(_, _)
\* the loop of fortranCounter over the lines it is given
FortranRun(dialect, ls) ==
    IF ls = <<>> THEN 0
    ELSE (IF FortranComment(dialect, ls[1]) THEN 0 ELSE 1)
         + FortranRun(dialect, Tail(ls))

\* fortranCounter(ctx, path, syntax)
fortranCounter(ctx, f, syn) ==
    LET c1 == setup(ctx, f).ctx
        ls == Lines(f.bytes)
    IN  IF ReadPanics(c1) THEN Outcome(TRUE, 0, c1)
        ELSE Outcome(FALSE, FortranRun(syn.dialect, ls),
                     teardown([c1 EXCEPT !.line_number = @ + Len(ls)]))

(* ---------------- really_is_expect ---------------- *)
\* A word the verifier looks for (load_lib, proc, if, expect) stands as one
\* element of the line.
\* the number of white-space characters (\s) line begins with
LeadingSpace(line) ==
    IF \A j \in 1 .. Len(line) : isspace(line[j]) THEN Len(line)
    ELSE (CHOOSE j \in 1 .. Len(line) :
              ~isspace(line[j]) /\ \A h \in 1 .. j - 1 : isspace(line[h])) - 1

\* "^\s*w": w is the first thing on the line that is not white space
StartsWith(line, w) == OccursAt(line, w, LeadingSpace(line) + 1)

\* "w\s*$": an occurrence of w is followed by white space alone
EndsWith(line, w) ==
    \E p \in 1 .. Len(line) :
        /\ OccursAt(line, w, p)
        /\ \A j \in p + Len(w) .. Len(line) : isspace(line[j])

\* "^\s*w\s": the word, then a white-space character
WordThenSpace(line, w) ==
    /\ StartsWith(line, <<w>>)
    /\ LeadingSpace(line) + 2 <= Len(line)
    /\ isspace(line[LeadingSpace(line) + 2])

\* what one line adds to the flags of really_is_expect
ExpectFlags(raw) ==
    LET line == CutAt(raw, <<"#">>)
    IN  [found_pound |-> Index(raw, <<"#">>) > 0,
         begin_brace |-> StartsWith(line, <<"{">>) \/ EndsWith(line, <<"{">>),
         end_brace |-> \/ StartsWith(line, <<"}">>)
                       \/ EndsWith(line, <<"}">>)
                       \/ EndsWith(line, <<"}", ";">>),
         load_lib |-> /\ WordThenSpace(line, "load_lib")
                      /\ \E j \in LeadingSpace(line) + 3 .. Len(line) :
                             ~isspace(line[j]),
         found_proc |-> WordThenSpace(line, "proc"),
         found_if |-> WordThenSpace(line, "if"),
         found_brackets |->
             \E p, q \in 1 .. Len(line) :
                 /\ p < q /\ line[p] = "[" /\ line[q] = "]"
                 /\ \A j \in p .. q : line[j] # NL,
         found_expect |-> WordThenSpace(line, "expect")]

\* really_is_expect(ctx, path)
really_is_expect(ctx, f) ==
    LET c1 == setup(ctx, f).ctx
        ls == Lines(f.bytes)
        Found(flag) == \E j \in 1 .. Len(ls) : ExpectFlags(ls[j])[flag]
    IN  IF ReadPanics(c1) THEN Outcome(TRUE, FALSE, c1)
        ELSE Outcome(FALSE,
                 \/ /\ Found("load_lib")
                    /\ (Found("found_pound")
                        \/ (Found("begin_brace") /\ Found("end_brace")))
                 \/ /\ Found("begin_brace") /\ Found("end_brace")
                    /\ (Found("found_proc") \/ Found("found_if")
                        \/ Found("found_brackets") \/ Found("found_expect")),
                 teardown([c1 EXCEPT !.line_number = @ + Len(ls)]))

(* ---------------- the tables ---------------- *)
CLike(name, suffix, verifier) ==
    [name |-> name, suffix |-> suffix, commentleader |-> <<"/", "*">>,
     commenttrailer |-> <<"*", "/">>, eolcomment |-> <<"/", "/">>,
     multistring |-> <<>>, eolwarn |-> TRUE, verifier |-> verifier]

Winged(name, suffix, eol) ==
    [name |-> name, suffix |-> suffix, commentleader |-> <<>>,
     commenttrailer |-> <<>>, eolcomment |-> eol,
     multistring |-> <<>>, eolwarn |-> TRUE, verifier |-> "nil"]

\* genericLanguages, in the order of the table: the rows the suffixes of the
\* model's paths can match, with some of their neighbours
genericLanguages ==
    << CLike("c", ".c", "nil"),
       CLike("c-header", ".h", "nil"),
       CLike("lex", ".l", "really_is_lex"),
       CLike("c++", ".cc", "nil"),
       [CLike("go", ".go", "nil") EXCEPT !.multistring = <<BQ>>],
       Winged("makefile", ".mk", <<"#">>),
       Winged("lisp", ".l", <<";">>),
       Winged("scheme", ".scm", <<";">>) >>

\* scriptingLanguages: name, suffix, hashbang, verifier
scriptingLanguages ==
    << [name |-> "tcl", suffix |-> ".tcl", hashbang |-> "tcl", verifier |-> "nil"],
       [name |-> "tcl", suffix |-> ".tcl", hashbang |-> "wish", verifier |-> "nil"],
       [name |-> "csh", suffix |-> ".csh", hashbang |-> "csh", verifier |-> "nil"],
       [name |-> "shell", suffix |-> ".sh", hashbang |-> "sh", verifier |-> "nil"],
       [name |-> "ruby", suffix |-> ".rb", hashbang |-> "ruby", verifier |-> "nil"],
       [name |-> "awk", suffix |-> ".awk", hashbang |-> "awk", verifier |-> "nil"],
       [name |-> "sed", suffix |-> ".sed", hashbang |-> "sed", verifier |-> "nil"],
       [name |-> "expect", suffix |-> ".exp", hashbang |-> "expect",
        verifier |-> "really_is_expect"] >>

\* pascalLikes: name, suffix, bracketcomments, verifier
PascalLike(name, suffix, bracketcomments, verifier) ==
    [name |-> name, suffix |-> suffix, bracketcomments |-> bracketcomments,
     verifier |-> verifier]

pascalLikes ==
    << PascalLike("pascal", ".pas", TRUE, "nil"),
       PascalLike("pascal", ".p", TRUE, "really_is_pascal"),
       PascalLike("pascal", ".inc", TRUE, "really_is_pascal"),
       PascalLike("modula3", ".i3", FALSE, "nil"),
       PascalLike("modula3", ".m3", FALSE, "nil"),
       PascalLike("modula3", ".ig", FALSE, "nil"),
       PascalLike("modula3", ".mg", FALSE, "nil"),
       PascalLike("ml", ".ml", FALSE, "nil"),
       PascalLike("mli", ".ml", FALSE, "nil"),
       PascalLike("mll", ".ml", FALSE, "nil"),
       PascalLike("mly", ".ml", FALSE, "nil"),
       PascalLike("oberon", ".mod", FALSE, "nil") >>

\* fortranLikes: name, suffix, and the pair of regular expressions by dialect
fortranLikes ==
    << [name |-> "fortran90", suffix |-> ".f90", dialect |-> "f90"],
       [name |-> "fortran", suffix |-> ".f77", dialect |-> "f77"],
       [name |-> "fortran", suffix |-> ".f", dialect |-> "f77"] >>

\* the suffixes of pascalLikes and fortranLikes
pascalSuffixes == {pascalLikes[i].suffix : i \in 1 .. Len(pascalLikes)}
fortranSuffixes == {fortranLikes[i].suffix : i \in 1 .. Len(fortranLikes)}

\* A path is [stem, ext]: "x" with ".c" is x.c, "x" with "" is x.
\* strings.HasSuffix(path, suffix) for the suffixes of the tables
HasSuffix(path, suffix) == path.ext # "" /\ path.ext = suffix

(* ---------------- Generic ---------------- *)
\* the zero SourceStat, and a filled one (filter sets Path afterwards)
NoStat == [Language |-> "", SLOC |-> 0]
Stat(l, n) == [Language |-> l, SLOC |-> n]

\* How a stage of Generic ends: done (Generic returns stat), or not, with the
\* context as it is then.  A stat of Unmodelled marks a branch whose scanner
\* this model does not hold; no input of the model reaches one.
Unmodelled == [Language |-> "?", SLOC |-> 0]
Stage(done, panic, stat, ctx) ==
    [done |-> done, panic |-> panic, stat |-> stat, ctx |-> ctx]

\* the scanner of a row of genericLanguages
CountRow(lang, ctx, f) ==
    IF Len(lang.commentleader) > 0
    THEN c_family_counter(ctx, f, lang)
    ELSE genericCounter(ctx, f, lang.eolcomment, lang.verifier)

RECURSIVE GenericRows_firstmatch(_, _, _)
\* GenericRows returning at the first row whose suffix matches, whatever it
\* counts
GenericRows_firstmatch(i, ctx, f) ==
    IF i > Len(genericLanguages) THEN Stage(FALSE, FALSE, NoStat, ctx)
    ELSE IF ~HasSuffix(f.path, genericLanguages[i].suffix)
         THEN GenericRows_firstmatch(i + 1, ctx, f)
    ELSE Then(CountRow(genericLanguages[i], ctx, f), LAMBDA n :
             Stage(TRUE, n.panic, Stat(genericLanguages[i].name, n.val), n.ctx))

RECURSIVE GenericRows(_, _, _)
\* for i := range genericLanguages, from row i on
GenericRows(i, ctx, f) ==
    IF i > Len(genericLanguages) THEN Stage(FALSE, FALSE, NoStat, ctx)
    ELSE IF ~HasSuffix(f.path, genericLanguages[i].suffix)
         THEN GenericRows(i + 1, ctx, f)
    ELSE Then(was_generated_automatically(ctx, f, genericLanguages[i].eolcomment),
         LAMBDA a :
             IF a.panic THEN Stage(TRUE, TRUE, NoStat, a.ctx)
             ELSE IF a.val THEN Stage(TRUE, FALSE, NoStat, a.ctx)
             ELSE Then(CountRow(genericLanguages[i], a.ctx, f),
                  LAMBDA n :
                      IF n.panic THEN Stage(TRUE, TRUE, NoStat, n.ctx)
                      ELSE IF n.val > 0
                           THEN Stage(TRUE, FALSE,
                                      Stat(genericLanguages[i].name, n.val), n.ctx)
                      ELSE GenericRows(i + 1, n.ctx, f)))

\* the body of the python, perl and waf cases: the generated-file test, then
\* pythonCounter (python, waf) or perlCounter
CountSpecial(name, ctx, f) ==
    Then(was_generated_automatically(ctx, f, <<"#">>), LAMBDA a :
        IF a.panic THEN Stage(TRUE, TRUE, NoStat, a.ctx)
        ELSE IF a.val THEN Stage(TRUE, FALSE, NoStat, a.ctx)
        ELSE Then(IF name = "perl" THEN perlCounter(a.ctx, f)
                  ELSE pythonCounter(a.ctx, f),
             LAMBDA n : Stage(TRUE, n.panic, Stat(name, n.val), n.ctx)))

\* the python, perl and waf cases: the suffixes, then the hashbang probes
SpecialCases(ctx, f) ==
    IF HasSuffix(f.path, ".py") THEN CountSpecial("python", ctx, f)
    ELSE Then(hashbang(ctx, f, "python"), LAMBDA py :
        IF py.panic THEN Stage(TRUE, TRUE, NoStat, py.ctx)
        ELSE IF py.val THEN CountSpecial("python", py.ctx, f)
        ELSE IF \E e \in {".pl", ".pm", ".ph"} : HasSuffix(f.path, e)
             THEN CountSpecial("perl", py.ctx, f)
        ELSE Then(hashbang(py.ctx, f, "perl"), LAMBDA pl :
            IF pl.panic THEN Stage(TRUE, TRUE, NoStat, pl.ctx)
            ELSE IF pl.val THEN CountSpecial("perl", pl.ctx, f)
            ELSE IF f.path.stem = "wscript" /\ f.path.ext = ""
                 THEN CountSpecial("waf", pl.ctx, f)
            ELSE Stage(FALSE, FALSE, NoStat, pl.ctx)))

\* the body of the if of a row of scriptingLanguages
CountScript(lang, ctx, f) ==
    Then(genericCounter(ctx, f, <<"#">>, "nil"),
         LAMBDA n : Stage(TRUE, n.panic, Stat(lang.name, n.val), n.ctx))

RECURSIVE ScriptingRows(_, _, _)
\* for i := range scriptingLanguages, from row i on: the generated-file test
\* comes first in every turn
ScriptingRows(i, ctx, f) ==
    IF i > Len(scriptingLanguages) THEN Stage(FALSE, FALSE, NoStat, ctx)
    ELSE Then(was_generated_automatically(ctx, f, <<"#">>), LAMBDA a :
        IF a.panic THEN Stage(TRUE, TRUE, NoStat, a.ctx)
        ELSE IF a.val THEN Stage(TRUE, FALSE, NoStat, a.ctx)
        ELSE IF HasSuffix(f.path, scriptingLanguages[i].suffix)
             THEN CountScript(scriptingLanguages[i], a.ctx, f)
        ELSE Then(hashbang(a.ctx, f, scriptingLanguages[i].hashbang), LAMBDA h :
            IF h.panic THEN Stage(TRUE, TRUE, NoStat, h.ctx)
            ELSE IF h.val THEN CountScript(scriptingLanguages[i], h.ctx, f)
            ELSE ScriptingRows(i + 1, h.ctx, f)))

RECURSIVE PascalRows(_, _, _, _)
\* for i := range pascalLikes, from row i on, with stat as it is then: a row
\* that counts nothing leaves its name in stat and the loop goes on
PascalRows(i, ctx, f, stat) ==
    IF i > Len(pascalLikes) THEN Stage(FALSE, FALSE, stat, ctx)
    ELSE IF ~HasSuffix(f.path, pascalLikes[i].suffix)
         THEN PascalRows(i + 1, ctx, f, stat)
    ELSE IF pascalLikes[i].verifier # "nil"
         THEN Stage(TRUE, FALSE, Unmodelled, ctx)
    ELSE Then(pascalCounter(ctx, f, pascalLikes[i]), LAMBDA n :
        IF n.panic \/ n.val > 0
        THEN Stage(TRUE, n.panic, Stat(pascalLikes[i].name, n.val), n.ctx)
        ELSE PascalRows(i + 1, n.ctx, f, Stat(pascalLikes[i].name, 0)))

RECURSIVE FortranRows(_, _, _, _)
\* for i := range fortranLikes, from row i on, with stat as it is then
FortranRows(i, ctx, f, stat) ==
    IF i > Len(fortranLikes) THEN Stage(FALSE, FALSE, stat, ctx)
    ELSE IF ~HasSuffix(f.path, fortranLikes[i].suffix)
         THEN FortranRows(i + 1, ctx, f, stat)
    ELSE Then(fortranCounter(ctx, f, fortranLikes[i]), LAMBDA n :
        IF n.panic \/ n.val > 0
        THEN Stage(TRUE, n.panic, Stat(fortranLikes[i].name, n.val), n.ctx)
        ELSE FortranRows(i + 1, n.ctx, f, Stat(fortranLikes[i].name, 0)))

\* the Pascal-like and Fortran-like tables, selected by suffix alone, and the
\* return stat that ends Generic
ColumnAndBracket(ctx, f) ==
    Then(PascalRows(1, ctx, f, NoStat), LAMBDA p :
        IF p.done THEN p
        ELSE Then(FortranRows(1, p.ctx, f, p.stat), LAMBDA q :
            Stage(TRUE, q.panic, q.stat, q.ctx)))

\* the suffixes of rows of genericLanguages that are not among the rows above:
\* prolog, occam, pop11, obj-c, sather (each with a verifier)
OtherSuffixes == {".pl", ".f", ".p", ".m", ".sa"}

\* Generic(ctx, path): the stat it returns, or a panic, and the context after
Generic(ctx, f) ==
    IF \E e \in OtherSuffixes : HasSuffix(f.path, e)
    THEN Stage(TRUE, FALSE, Unmodelled, ctx)
    ELSE
    Then(GenericRows(1, ctx, f), LAMBDA g :
        IF g.done THEN g
        ELSE Then(SpecialCases(g.ctx, f), LAMBDA sp :
            IF sp.done THEN sp
            ELSE Then(ScriptingRows(1, sp.ctx, f), LAMBDA sc :
                IF sc.done THEN sc
                ELSE ColumnAndBracket(sc.ctx, f))))

(* ---------------- state ---------------- *)
VARIABLES
    kind,        \* the tree: node -> what the entry is
    queue,       \* ws.v: the visit queue (nodes, in order)
    qclosed,     \* ws.v has been closed
    active,      \* ws.active: the WaitGroup counter
    firstError,  \* ws.firstError
    wst,         \* per worker: "idle" (at the receive), "visit", "dec", "exited"
    stack,       \* per worker: the visitFile activations, innermost last
    pipeline,    \* the output channel
    pclosed,     \* the pipeline has been closed
    walkpc,      \* Walk: "start", "wait", "returned"
    result,      \* the value Walk returned
    mainpc,      \* the consumer loop of main: "recv", "done"
    crashed,     \* "no", or the panic that killed the process
    emitted,     \* history: node -> number of records sent for it
    called,      \* history: node -> number of walkFn calls on its path
    latches,     \* history: the errors passed to setTerminated, in order
    stores,      \* history: number of assignments to ws.firstError
    route,       \* history: node -> how the directory was handed on:
                 \* "none", "queued" (sent on ws.v), "sync" (visited in
                 \* place) or "twice" (handed on more than once)
    lastctx,     \* the countContext of the latest call of Generic, as left
    records,     \* history: the files classified and the stat of each
    root,        \* the root path handed to Walk, as a sequence of path tokens
    exclusions,  \* the exclusion paths of option -x
    pending,     \* the walk over paths: the directories waiting on ws.v
    here,        \* the walk over paths: the directory being expanded
    todo,        \* the walk over paths: its names still to visit
    calls,       \* history: the calls of filter, in order, with their outcome
    reads,       \* history: the directories handed to readDirNames
    counts,      \* main: the map from language to countRecord
    totals,      \* main: the countRecord of all languages
    arrived      \* history: the records main has received, in order

vars == <<kind, queue, qclosed, active, firstError, wst, stack, pipeline,
          pclosed, walkpc, result, mainpc, crashed, emitted, called,
          latches, stores, route, lastctx, records, root, exclusions,
          pending, here, todo, calls, reads, counts, totals, arrived>>

\* the state of the walk over paths and of the report of main
pvars == <<root, exclusions, pending, here, todo, calls, reads>>
rvars == <<counts, totals, arrived>>
\* the state of the walk over the tree
tvars == <<kind, queue, qclosed, active, firstError, wst, stack, pipeline,
           pclosed, walkpc, result, mainpc, emitted, called, latches, stores,
           route>>
\* what a step of the walk over the tree leaves alone, and what a step of the
\* classifier leaves alone
cvars == <<lastctx, records, pvars, rvars>>
wvars == <<tvars, pvars, rvars>>

Workers == 1 .. Walkers

\* one activation of visitFile: the item, the index of the next name of the
\* loop, the position in the body and the error about to be latched
Frame(n, pc) == [node |-> n, i |-> 1, pc |-> pc, err |-> None]

Top(w) == stack[w][Len(stack[w])]

\* replace the innermost activation of worker w
SetTop(w, f) == [stack EXCEPT ![w] = [@ EXCEPT ![Len(@)] = f]]

\* return from the innermost activation of worker w
Return(w) ==
    IF Len(stack[w]) = 1
    THEN /\ stack' = [stack EXCEPT ![w] = <<>>]
         /\ wst' = [wst EXCEPT ![w] = "dec"]
    ELSE /\ stack' = [stack EXCEPT ![w] = SubSeq(@, 1, Len(@) - 1)]
         /\ UNCHANGED wst

\* a tree the program can meet: the root exists as a directory or not at all,
\* entries below something that is not an expanded directory do not exist
\* (they are held at "reg"), and few entries are odd
TreeOK(t) ==
    /\ t[RootNode] \in {"dir", "reg", "baddir", "nolstat"}
    /\ \A n \in Nodes \ {RootNode} : t[ParentOf(n)] # "dir" => t[n] = "reg"
    /\ Cardinality({n \in Nodes : t[n] \in OddKinds}) <= MaxOdd

\* the walk over the tree and the classifier before the first step
InitTree ==
    /\ kind \in {t \in [Nodes -> Kinds] : TreeOK(t)}
    /\ queue = <<>>
    /\ qclosed = FALSE
    /\ active = 0
    /\ firstError = None
    /\ wst = [w \in Workers |-> "idle"]
    /\ stack = [w \in Workers |-> <<>>]
    /\ pipeline = <<>>
    /\ pclosed = FALSE
    /\ walkpc = "start"
    /\ result = None
    /\ mainpc = "recv"
    /\ crashed = "no"
    /\ emitted = [n \in Nodes |-> 0]
    /\ called = [n \in Nodes |-> 0]
    /\ latches = <<>>
    /\ stores = 0
    /\ route = [n \in Nodes |-> "none"]
    /\ lastctx = NewContext
    /\ records = <<>>

\* no walk over paths is under way
InitPath ==
    /\ root = <<>>
    /\ exclusions = {}
    /\ pending = <<>>
    /\ here = <<>>
    /\ todo = <<>>
    /\ calls = <<>>
    /\ reads = {}

\* var totals countRecord; counts := map[string]countRecord{}
InitReport ==
    /\ counts = <<>>
    /\ totals = [language |-> "", linecount |-> 0, filecount |-> 0]
    /\ arrived = <<>>

Init == InitTree /\ InitPath /\ InitReport

(* ---------------- WalkState ---------------- *)
\* ws.terminated()
terminated == firstError # None

\* setTerminated without the test of the slot: the last error wins
setTerminated_overwrite(err) ==
    /\ firstError' = err
    /\ stores' = stores + 1
    /\ latches' = Append(latches, err)

\* ws.setTerminated(err): under the lock, store err if the slot is empty
setTerminated(err) ==
    /\ firstError' = IF firstError = None THEN err ELSE firstError
    /\ stores' = IF firstError = None THEN stores + 1 ELSE stores
    /\ latches' = Append(latches, err)

\* pipeline <- st, which blocks while the channel is full
CanSend == Len(pipeline) < PipeCap

\* the effect of calling filter on node n without a panic: r is what the call
\* with a nil error does; times counts the calls (a second one, with the error
\* of readDirNames, sends nothing)
RunFilter(n, r, times) ==
    /\ called' = [called EXCEPT ![n] = @ + times]
    /\ IF r.emit
       THEN /\ CanSend
            /\ pipeline' = Append(pipeline, StatOfFile(n))
            /\ emitted' = [emitted EXCEPT ![n] = @ + 1]
       ELSE UNCHANGED <<pipeline, emitted>>

\* the panics of the walk: a method call on the nil os.FileInfo of a failed
\* Lstat, and a read through the nil reader of a failed open
NilInfo == "nil FileInfo"
NilReader == "nil Reader"

\* an unrecovered panic in a goroutine: the process dies
Panic(why) ==
    /\ crashed' = why
    /\ UNCHANGED <<kind, queue, qclosed, active, firstError, wst, stack,
                   pipeline, pclosed, walkpc, result, mainpc, emitted,
                   called, latches, stores, route>>

(* ---------------- visitChannel ---------------- *)
\* for file := range ws.v
Receive(w) ==
    /\ wst[w] = "idle"
    /\ queue # <<>>
    /\ queue' = Tail(queue)
    /\ stack' = [stack EXCEPT ![w] = <<Frame(Head(queue), "enter")>>]
    /\ wst' = [wst EXCEPT ![w] = "visit"]
    /\ UNCHANGED <<kind, qclosed, active, firstError, pipeline, pclosed,
                   walkpc, result, mainpc, crashed, emitted, called, latches,
                   stores, route>>

\* the range loop ends when the queue is closed and drained
WorkerExit(w) ==
    /\ wst[w] = "idle"
    /\ queue = <<>>
    /\ qclosed
    /\ wst' = [wst EXCEPT ![w] = "exited"]
    /\ UNCHANGED <<kind, queue, qclosed, active, firstError, stack, pipeline,
                   pclosed, walkpc, result, mainpc, crashed, emitted, called,
                   latches, stores, route>>

\* ws.active.Add(-1) after visitFile has returned
Decrement(w) ==
    /\ wst[w] = "dec"
    /\ active' = active - 1
    /\ wst' = [wst EXCEPT ![w] = "idle"]
    /\ UNCHANGED <<kind, queue, qclosed, firstError, stack, pipeline, pclosed,
                   walkpc, result, mainpc, crashed, emitted, called, latches,
                   stores, route>>

(* ---------------- visitFile ---------------- *)
\* if ws.terminated() { return }
CheckTerminated(w) ==
    /\ wst[w] = "visit"
    /\ Top(w).pc = "enter"
    /\ IF terminated
       THEN Return(w)
       ELSE /\ stack' = SetTop(w, [Top(w) EXCEPT !.pc = "walk"])
            /\ UNCHANGED wst
    /\ UNCHANGED <<kind, queue, qclosed, active, firstError, pipeline, pclosed,
                   walkpc, result, mainpc, crashed, emitted, called, latches,
                   stores, route>>

\* err := ws.walkFn(file.path, file.info, nil) ... readDirNames(file.path)
VisitItem(w) ==
    /\ wst[w] = "visit"
    /\ Top(w).pc = "walk"
    /\ LET n == Top(w).node
           k == kind[n]
           r == filter(k, None)
           r2 == filter(k, ReadDirErr(n))
       IN  IF r.crash THEN Panic(NilReader)
           ELSE
             /\ RunFilter(n, r, IF r.ret = None /\ InfoIsDir(k) /\ ~Openable(k)
                                 THEN 2 ELSE 1)
             /\ IF r.ret # None
                THEN IF ~(InfoIsDir(k) /\ r.ret = SkipDir)
                     THEN /\ stack' = SetTop(w, [Top(w) EXCEPT !.pc = "latch",
                                                               !.err = r.ret])
                          /\ UNCHANGED wst
                     ELSE Return(w)
                ELSE IF ~InfoIsDir(k) THEN Return(w)
                ELSE IF ~Openable(k)
                     \* readDirNames failed: err = ws.walkFn(path, info, err)
                     THEN IF r2.ret # None
                          THEN /\ stack' = SetTop(w, [Top(w) EXCEPT
                                                 !.pc = "latch", !.err = r2.ret])
                               /\ UNCHANGED wst
                          ELSE Return(w)
                     ELSE /\ stack' = SetTop(w, [Top(w) EXCEPT !.pc = "loop"])
                          /\ UNCHANGED wst
             /\ UNCHANGED <<kind, queue, qclosed, active, firstError, pclosed,
                            walkpc, result, mainpc, crashed, latches, stores, route>>

\* for _, name := range names: the Lstat of the entry and, for an entry that
\* is not a directory, the call of walkFn
VisitName(w) ==
    /\ wst[w] = "visit"
    /\ Top(w).pc = "loop"
    /\ LET f == Top(w)
           names == ChildNames(f.node)
       IN  IF f.i > Len(names)
           THEN /\ Return(w)
                /\ UNCHANGED <<kind, queue, qclosed, active, firstError,
                               pipeline, pclosed, walkpc, result, mainpc,
                               crashed, emitted, called, latches, stores, route>>
           ELSE
             LET c == names[f.i]
                 k == kind[c]
             IN  IF LstatOf(k) = "fail"
                 THEN \* file.info is nil; filter hands the error back and
                      \* the test file.info.IsDir() dereferences nil
                      LET r == filter(k, LstatErr(c))
                      IN  IF r.crash THEN Panic(NilReader)
                          ELSE IF r.ret # None THEN Panic(NilInfo)
                          ELSE /\ RunFilter(c, r, 1)
                               /\ stack' = SetTop(w, [f EXCEPT !.i = @ + 1])
                               /\ UNCHANGED <<kind, queue, qclosed, active,
                                              firstError, wst, pclosed, walkpc,
                                              result, mainpc, crashed, latches,
                                              stores, route>>
                 ELSE IF InfoIsDir(k)
                 THEN \* ws.active.Add(1): presume channel send will succeed
                      /\ active' = active + 1
                      /\ stack' = SetTop(w, [f EXCEPT !.pc = "send"])
                      /\ UNCHANGED <<kind, queue, qclosed, firstError, wst,
                                     pipeline, pclosed, walkpc, result, mainpc,
                                     crashed, emitted, called, latches, stores, route>>
                 ELSE LET r == filter(k, None)
                      IN  IF r.crash THEN Panic(NilReader)
                          ELSE /\ RunFilter(c, r, 1)
                               /\ stack' = SetTop(w,
                                     IF r.ret # None
                                     THEN [f EXCEPT !.pc = "latch", !.err = r.ret]
                                     ELSE [f EXCEPT !.i = @ + 1])
                               /\ UNCHANGED <<kind, queue, qclosed, active,
                                              firstError, wst, pclosed, walkpc,
                                              result, mainpc, crashed, latches,
                                              stores, route>>

\* the history of a directory that is handed on once more
Handed(before, how) == IF before = "none" THEN how ELSE "twice"

\* the select with a default branch that gives the directory up when the
\* queue is full
TrySend_lose(w) ==
    /\ wst[w] = "visit"
    /\ Top(w).pc = "send"
    /\ LET f == Top(w)
           c == ChildNames(f.node)[f.i]
       IN  IF Len(queue) < QueueCap
           THEN /\ queue' = Append(queue, c)
                /\ route' = [route EXCEPT ![c] = Handed(@, "queued")]
                /\ UNCHANGED active
           ELSE /\ active' = active - 1
                /\ UNCHANGED <<queue, route>>
    /\ stack' = SetTop(w, [Top(w) EXCEPT !.pc = "loop", !.i = @ + 1])
    /\ UNCHANGED <<kind, qclosed, firstError, wst, pipeline, pclosed,
                   walkpc, result, mainpc, crashed, emitted, called, latches,
                   stores>>

\* the select without its exclusive choice: a directory that was sent is
\* visited in place as well
TrySend_both(w) ==
    /\ wst[w] = "visit"
    /\ Top(w).pc = "send"
    /\ LET f == Top(w)
           c == ChildNames(f.node)[f.i]
       IN  IF Len(queue) < QueueCap
           THEN /\ queue' = Append(queue, c)
                /\ route' = [route EXCEPT ![c] = Handed(@, "queued")]
                /\ active' = active + 1
                /\ stack' = SetTop(w, [f EXCEPT !.pc = "undo"])
           ELSE /\ stack' = SetTop(w, [f EXCEPT !.pc = "undo"])
                /\ UNCHANGED <<queue, route, active>>
    /\ UNCHANGED <<kind, qclosed, firstError, wst, pipeline, pclosed,
                   walkpc, result, mainpc, crashed, emitted, called, latches,
                   stores>>

\* select { case ws.v <- file: ... default: ... }
TrySend(w) ==
    /\ wst[w] = "visit"
    /\ Top(w).pc = "send"
    /\ LET f == Top(w)
           c == ChildNames(f.node)[f.i]
       IN  IF Len(queue) < QueueCap
           THEN /\ queue' = Append(queue, c)
                /\ route' = [route EXCEPT ![c] = Handed(@, "queued")]
                /\ stack' = SetTop(w, [f EXCEPT !.pc = "loop", !.i = @ + 1])
           ELSE /\ stack' = SetTop(w, [f EXCEPT !.pc = "undo"])
                /\ UNCHANGED <<queue, route>>
    /\ UNCHANGED <<kind, qclosed, active, firstError, wst, pipeline, pclosed,
                   walkpc, result, mainpc, crashed, emitted, called, latches,
                   stores>>

\* the default branch without the recursive call: the directory is dropped
UndoAndRecurse_drop(w) ==
    /\ wst[w] = "visit"
    /\ Top(w).pc = "undo"
    /\ stack' = SetTop(w, [Top(w) EXCEPT !.pc = "loop", !.i = @ + 1])
    /\ active' = active - 1
    /\ UNCHANGED <<kind, queue, qclosed, firstError, wst, pipeline, pclosed,
                   walkpc, result, mainpc, crashed, emitted, called, latches,
                   stores, route>>

\* the default branch without the undo of the speculative increment
UndoAndRecurse_keep(w) ==
    /\ wst[w] = "visit"
    /\ Top(w).pc = "undo"
    /\ LET f == Top(w)
           c == ChildNames(f.node)[f.i]
       IN  /\ stack' = [stack EXCEPT ![w] =
                  Append([@ EXCEPT ![Len(@)] = [f EXCEPT !.pc = "loop", !.i = @ + 1]],
                         Frame(c, "enter"))]
           /\ route' = [route EXCEPT ![c] = Handed(@, "sync")]
    /\ UNCHANGED <<kind, queue, qclosed, active, firstError, wst, pipeline,
                   pclosed, walkpc, result, mainpc, crashed, emitted, called,
                   latches, stores>>

\* default: ws.active.Add(-1); ws.visitFile(file)
UndoAndRecurse(w) ==
    /\ wst[w] = "visit"
    /\ Top(w).pc = "undo"
    /\ LET f == Top(w)
           c == ChildNames(f.node)[f.i]
       IN  /\ stack' = [stack EXCEPT ![w] =
                  Append([@ EXCEPT ![Len(@)] = [f EXCEPT !.pc = "loop", !.i = @ + 1]],
                         Frame(c, "enter"))]
           /\ route' = [route EXCEPT ![c] = Handed(@, "sync")]
    /\ active' = active - 1
    /\ UNCHANGED <<kind, queue, qclosed, firstError, wst, pipeline, pclosed,
                   walkpc, result, mainpc, crashed, emitted, called, latches,
                   stores>>

\* ws.setTerminated(err); return
Latch(w) ==
    /\ wst[w] = "visit"
    /\ Top(w).pc = "latch"
    /\ setTerminated(Top(w).err)
    /\ Return(w)
    /\ UNCHANGED <<kind, queue, qclosed, active, pipeline, pclosed, walkpc,
                   result, mainpc, crashed, emitted, called, route>>

(* ---------------- Walk ---------------- *)
\* info, err := os.Lstat(root); on failure return walkFn(root, nil, err);
\* otherwise build the WalkState, count and queue the root, start the workers
WalkStart ==
    /\ walkpc = "start"
    /\ LET k == kind[RootNode]
           r == filter(k, LstatErr(RootNode))
       IN  IF LstatOf(k) = "fail"
           THEN /\ called' = [called EXCEPT ![RootNode] = @ + 1]
                /\ result' = r.ret
                /\ walkpc' = "returned"
                /\ UNCHANGED <<active, queue>>
           ELSE /\ active' = active + 1
                /\ queue' = Append(queue, RootNode)
                /\ walkpc' = "wait"
                /\ UNCHANGED <<called, result>>
    /\ UNCHANGED <<kind, qclosed, firstError, wst, stack, pipeline, pclosed,
                   mainpc, crashed, emitted, latches, stores, route>>

\* a Walk that returns, and closes ws.v, without waiting for ws.active
WalkReturn_nowait ==
    /\ walkpc = "wait"
    /\ result' = firstError
    /\ qclosed' = TRUE
    /\ walkpc' = "returned"
    /\ UNCHANGED <<kind, queue, active, firstError, wst, stack, pipeline,
                   pclosed, mainpc, crashed, emitted, called, latches, stores, route>>

\* ws.active.Wait(); return ws.firstError, with the deferred close(ws.v)
WalkReturn ==
    /\ walkpc = "wait"
    /\ active = 0
    /\ result' = firstError
    /\ qclosed' = TRUE
    /\ walkpc' = "returned"
    /\ UNCHANGED <<kind, queue, active, firstError, wst, stack, pipeline,
                   pclosed, mainpc, crashed, emitted, called, latches, stores, route>>

(* ---------------- main ---------------- *)
\* the goroutine of main: after the walk of the last root, close(pipeline)
ClosePipeline ==
    /\ walkpc = "returned"
    /\ ~pclosed
    /\ pclosed' = TRUE
    /\ UNCHANGED <<kind, queue, qclosed, active, firstError, wst, stack,
                   pipeline, walkpc, result, mainpc, crashed, emitted, called,
                   latches, stores, route>>

\* st, more := <-pipeline, with more true
Consume ==
    /\ mainpc = "recv"
    /\ pipeline # <<>>
    /\ pipeline' = Tail(pipeline)
    /\ UNCHANGED <<kind, queue, qclosed, active, firstError, wst, stack,
                   pclosed, walkpc, result, mainpc, crashed, emitted, called,
                   latches, stores, route>>

\* st, more := <-pipeline, with more false: break
ConsumerDone ==
    /\ mainpc = "recv"
    /\ pipeline = <<>>
    /\ pclosed
    /\ mainpc' = "done"
    /\ UNCHANGED <<kind, queue, qclosed, active, firstError, wst, stack,
                   pipeline, pclosed, walkpc, result, crashed, emitted, called,
                   latches, stores, route>>

\* a process that has panicked takes no further step
Alive == crashed = "no"

Next ==
    \/ Alive /\ WalkStart /\ UNCHANGED cvars
    \/ Alive /\ WalkReturn /\ UNCHANGED cvars
    \/ Alive /\ ClosePipeline /\ UNCHANGED cvars
    \/ Alive /\ Consume /\ UNCHANGED cvars
    \/ Alive /\ ConsumerDone /\ UNCHANGED cvars
    \/ \E w \in Workers : Alive /\ Receive(w) /\ UNCHANGED cvars
    \/ \E w \in Workers : Alive /\ WorkerExit(w) /\ UNCHANGED cvars
    \/ \E w \in Workers : Alive /\ Decrement(w) /\ UNCHANGED cvars
    \/ \E w \in Workers : Alive /\ CheckTerminated(w) /\ UNCHANGED cvars
    \/ \E w \in Workers : Alive /\ VisitItem(w) /\ UNCHANGED cvars
    \/ \E w \in Workers : Alive /\ VisitName(w) /\ UNCHANGED cvars
    \/ \E w \in Workers : Alive /\ TrySend(w) /\ UNCHANGED cvars
    \/ \E w \in Workers : Alive /\ UndoAndRecurse(w) /\ UNCHANGED cvars
    \/ \E w \in Workers : Alive /\ Latch(w) /\ UNCHANGED cvars

Spec == Init /\ [][Next]_vars

\* the steps of worker w
WorkerStep(w) ==
    \/ Receive(w)
    \/ WorkerExit(w)
    \/ Decrement(w)
    \/ CheckTerminated(w)
    \/ VisitItem(w)
    \/ VisitName(w)
    \/ TrySend(w)
    \/ UndoAndRecurse(w)
    \/ Latch(w)

\* The Go scheduler lets every goroutine that can run do so: the goroutine of
\* Walk, the consumer loop of main, which keeps receiving, and each worker.  A
\* sender blocked on the pipeline is served when room appears (blocked senders
\* are queued first come, first served), hence strong fairness for the workers.
Fairness ==
    /\ WF_vars(Alive /\ (WalkStart \/ WalkReturn \/ ClosePipeline)
                 /\ UNCHANGED cvars)
    /\ WF_vars(Alive /\ (Consume \/ ConsumerDone) /\ UNCHANGED cvars)
    /\ \A w \in Workers : SF_vars(Alive /\ WorkerStep(w) /\ UNCHANGED cvars)

FairSpec == Spec /\ Fairness

\* the trees on which every system call of the walk either succeeds or fails
\* the way the walk provides for: no entry whose Lstat or open fails, no
\* symbolic link named with a leading dot
SoundKinds == PlainKinds \cup {"dotdir", "baddir"}

InitSound == Init /\ \A n \in Nodes : kind[n] \in SoundKinds

SoundSpec == InitSound /\ [][Next]_vars

FairSoundSpec == SoundSpec /\ Fairness

(* ---------------- the fully serial traversal ---------------- *)
\* visitFile run by one thread that hands no directory to the queue: every
\* subdirectory is visited in place, in the sorted order of the names.
\* st = [em: node -> records sent, err: the first-error slot, crash]
SerialStart == [em |-> [n \in Nodes |-> 0], err |-> None, crash |-> "no"]

SerialEmit(st, n, r) ==
    IF r.emit THEN [st EXCEPT !.em[n] = @ + 1] ELSE st

SerialLatch(st, e) ==
    IF st.err = None THEN [st EXCEPT !.err = e] ELSE st

RECURSIVE SerialVisit(_, _), SerialNames(_, _, _)

SerialVisit(n, st) ==
    LET k == kind[n]
        r == filter(k, None)
        r2 == filter(k, ReadDirErr(n))
        s1 == SerialEmit(st, n, r)
    IN  IF st.crash # "no" \/ st.err # None THEN st
        ELSE IF r.crash THEN [st EXCEPT !.crash = NilReader]
        ELSE IF r.ret # None
             THEN IF ~(InfoIsDir(k) /\ r.ret = SkipDir)
                  THEN SerialLatch(s1, r.ret)
                  ELSE s1
        ELSE IF ~InfoIsDir(k) THEN s1
        ELSE IF ~Openable(k)
             THEN IF r2.ret # None THEN SerialLatch(s1, r2.ret) ELSE s1
        ELSE SerialNames(n, 1, s1)

SerialNames(n, i, st) ==
    LET names == ChildNames(n)
        c == names[i]
        k == kind[c]
        r == filter(k, None)
        re == filter(k, LstatErr(c))
        s1 == SerialEmit(st, c, r)
    IN  IF st.crash # "no" \/ i > Len(names) THEN st
        ELSE IF LstatOf(k) = "fail"
             THEN IF re.ret # None THEN [st EXCEPT !.crash = NilInfo]
                  ELSE SerialNames(n, i + 1, st)
        ELSE IF InfoIsDir(k) THEN SerialNames(n, i + 1, SerialVisit(c, st))
        ELSE IF r.crash THEN [st EXCEPT !.crash = NilReader]
        ELSE IF r.ret # None THEN SerialLatch(s1, r.ret)
        ELSE SerialNames(n, i + 1, s1)

\* Walk(root, filter) with the serial visitFile
SerialWalk ==
    IF LstatOf(kind[RootNode]) = "fail"
    THEN [SerialStart EXCEPT !.err = filter(kind[RootNode], LstatErr(RootNode)).ret]
    ELSE SerialVisit(RootNode, SerialStart)

RECURSIVE SlocSum(_, _)
\* the sum of the line counts of the records em counts, over the nodes of S
SlocSum(em, S) ==
    IF S = {} THEN 0
    ELSE LET n == CHOOSE x \in S : TRUE
         IN  em[n] * FileSloc(n) + SlocSum(em, S \ {n})

(* ---------------- what the tree holds ---------------- *)
RECURSIVE Beneath(_)
\* node n exists and every directory on the way to it is one the walk expands
Beneath(n) ==
    n = RootNode \/ (kind[ParentOf(n)] = "dir" /\ Beneath(ParentOf(n)))

\* a regular file beneath the root that passes the pre-filter
PassingFile(n) == Beneath(n) /\ kind[n] = "reg"

WalkDone == walkpc = "returned"

(* ======================= the claims ======================= *)

\* C1: in a walk that latched no error, every regular file beneath the root
\* that passes the pre-filter has had exactly one record sent when Walk
\* returns, and at no moment has any path had two records sent, whatever the
\* interleaving and however each subdirectory was handed on.
C1_ExactlyOneRecord ==
    /\ \A n \in Nodes : emitted[n] <= 1
    /\ (WalkDone /\ result = None /\ firstError = None) =>
           \A n \in Nodes : PassingFile(n) => emitted[n] = 1

\* a finished walk without error in which one subdirectory went through the
\* queue and another was visited in place, each holding a counted file
C1_Witness ==
    /\ WalkDone /\ result = None
    /\ \E d1, d2 \in Nodes :
          /\ route[d1] = "queued" /\ route[d2] = "sync"
          /\ \E f1, f2 \in Nodes :
                /\ PassingFile(f1) /\ ParentOf(f1) = d1 /\ emitted[f1] = 1
                /\ PassingFile(f2) /\ ParentOf(f2) = d2 /\ emitted[f2] = 1

\* C2 as stated: for any tree, the records of the concurrent walk (and the
\* sum of their line counts) are those of the serial traversal.
C2_SerialEquivalence_AnyTree ==
    WalkDone =>
        /\ emitted = SerialWalk.em
        /\ SlocSum(emitted, Nodes) = SlocSum(SerialWalk.em, Nodes)

\* C2 amended: when the concurrent walk returns without a latched error, the
\* multiset of records it sent, and the sum of their line counts, are those of
\* the serial traversal of the same tree, which latches no error either.
C2_SerialEquivalence ==
    (WalkDone /\ result = None) =>
        /\ SerialWalk.err = None /\ SerialWalk.crash = "no"
        /\ emitted = SerialWalk.em
        /\ SlocSum(emitted, Nodes) = SlocSum(SerialWalk.em, Nodes)

\* a finished walk without error that sent at least three records, one of them
\* from a directory taken off the queue by a worker
C2_Witness ==
    /\ WalkDone /\ result = None
    /\ Cardinality({n \in Nodes : emitted[n] = 1}) >= 3
    /\ SlocSum(emitted, Nodes) > 0
    /\ \E d \in Nodes : route[d] = "queued" /\
          \E f \in Nodes : ParentOf(f) = d /\ emitted[f] = 1

\* the items a worker took off the queue and has not yet counted down
Held == {w \in Workers : wst[w] \in {"visit", "dec"}}

\* the activations between ws.active.Add(1) and the outcome of the select, or
\* between the default branch and its ws.active.Add(-1)
Speculative ==
    {<<w, j>> \in Workers \X (1 .. Cardinality(Nodes)) :
        j <= Len(stack[w]) /\ stack[w][j].pc \in {"send", "undo"}}

InVisitFile == {w \in Workers : wst[w] = "visit"}

C5_FirstErrorOnce ==
    /\ stores <= 1
    /\ latches # <<>> => (stores = 1 /\ firstError = latches[1])
    /\ latches = <<>> => (stores = 0 /\ firstError = None)
    /\ (WalkDone /\ latches # <<>>) => result = latches[1]

\* two setTerminated calls with different errors were made, and Walk returned
\* the first
C5_Witness ==
    /\ WalkDone
    /\ Len(latches) >= 2
    /\ latches[2] # latches[1]
    /\ result = latches[1]

\* C4: for every finite tree Walk eventually returns, the queue is closed and
\* every worker leaves its receive loop.
C4_WalkReturns ==
    <>(WalkDone /\ (LstatOf(kind[RootNode]) # "fail" =>
                       qclosed /\ \A w \in Workers : wst[w] = "exited"))

\* the directories the walk reaches and cannot read
Unreadable == {n \in Nodes : Beneath(n) /\ kind[n] = "baddir"}

\* the number of setTerminated calls that passed error e
TimesLatched(e) == Cardinality({j \in 1 .. Len(latches) : latches[j] = e})

StatFails == {n \in Nodes \ {RootNode} : Beneath(n) /\ LstatOf(kind[n]) = "fail"}

\* C7: when the Lstat of an entry fails during the expansion of its parent,
\* the process does not crash on the missing file information; the error the
\* walk function returns is latched and Walk returns it.
C7_StatFailureLatched ==
    /\ crashed # NilInfo
    /\ (WalkDone /\ \E n \in StatFails : called[n] > 0) =>
           (result # None /\ result = latches[1])

\* the paths for which the walk function returns the skip-directory sentinel
Skipped == {n \in Nodes : Beneath(n) /\ filter(kind[n], None).ret = SkipDir}

\* C8: when the walk function returns SkipDir for a directory, nothing beneath
\* it is visited, the first-error slot stays empty (of the sentinel), and every
\* path outside the subtree is visited as it would be were the directory empty:
\* once, in a walk that ends without error.
C8_SkipDirPrunes ==
    /\ \A d \in Skipped :
          /\ \A c \in Nodes \ {RootNode} : ParentOf(c) = d => called[c] = 0
          /\ called[d] > 0 => (firstError # SkipDir /\ TimesLatched(SkipDir) = 0)
    /\ (WalkDone /\ result = None) =>
           \A n \in Nodes : Beneath(n) => called[n] = 1

(* ================= the classifier, file after file ================= *)
\* the number of files classified in one run
MaxFiles == 3

File(stem, ext, exec, openable, bytes) ==
    [path |-> [stem |-> stem, ext |-> ext], exec |-> exec,
     openable |-> openable, bytes |-> bytes]

\* x.c: code, a blank line, a block comment, code without a final newline
PlainC == File("x", ".c", FALSE, TRUE,
               <<"a", NL, NL, "/", "*", "b", "*", "/", NL, "c">>)
\* x.c: a string literal holding a comment leader
StringC == File("x", ".c", FALSE, TRUE, <<DQ, "/", "*", DQ, NL, "a", NL>>)
\* x.c: a line that begins with a percent sign
PercentC == File("x", ".c", FALSE, TRUE, <<"a", NL, "%", "a", NL>>)
\* x.c: marked as generated in its first lines
GeneratedC == File("x", ".c", FALSE, TRUE,
                   <<"/", "*", GEN, "*", "/", NL, "a", NL>>)
\* x.c that cannot be opened
LockedC == File("x", ".c", FALSE, FALSE, <<"a", NL>>)
\* x.l holding lex, and x.l holding lisp
LexL == File("x", ".l", FALSE, TRUE, <<"%", "%", NL, "a", NL, "%", "%", NL>>)
LispL == File("x", ".l", FALSE, TRUE, <<";", "a", NL, "(", "a", ")", NL>>)
\* x, a shell script, with and without the executable bits
ScriptX == File("x", "", TRUE, TRUE, <<"#", "!", "sh", NL, "a", NL>>)
PlainX == [ScriptX EXCEPT !.exec = FALSE]
\* x, an executable csh script: its first line holds "sh" as well
CshX == File("x", "", TRUE, TRUE, <<"#", "!", "csh", NL, "a", NL, "a", NL>>)
\* x.sh: selected by suffix
SuffixSh == File("x", ".sh", FALSE, TRUE, <<"#", "a", NL, "a", NL>>)

\* x.exp: a suffix of the expect row, and nothing that reads like expect
PlainExp == File("x", ".exp", FALSE, TRUE, <<"a", NL>>)
\* x.pas: marked as generated in a bracket comment on its first line
GeneratedPas == File("x", ".pas", FALSE, TRUE,
                     <<"{", GEN, "}", NL, "a", NL>>)
\* x.c: GenLines lines of code, then the mark of a generated file
LateMarkC == File("x", ".c", FALSE, TRUE,
                  [j \in 1 .. 2 * GenLines |-> IF j % 2 = 1 THEN "a" ELSE NL]
                      \o <<"/", "*", GEN, "*", "/", NL>>)

Corpus == {PlainC, StringC, PercentC, GeneratedC, LockedC, LexL, LispL,
           ScriptX, PlainX, CshX, SuffixSh, PlainExp, GeneratedPas, LateMarkC}

\* The end of filter for a regular file f that passed the tests, with c the
\* context handed to Generic: the stat goes down the pipeline, or the read of
\* a nil reader ends the process.
ClassifyWith(c, f) ==
    LET g == Generic(c, f)
    IN  /\ Len(records) < MaxFiles
        /\ lastctx' = g.ctx
        /\ IF g.panic
           THEN /\ crashed' = NilReader
                /\ UNCHANGED records
           ELSE /\ records' = Append(records, [file |-> f, stat |-> g.stat])
                /\ UNCHANGED crashed
        /\ UNCHANGED wvars

\* (variant: one context serves every file)
Classify_shared(f) == ClassifyWith(lastctx, f)

\* ctx := new(countContext); st := Generic(ctx, path); pipeline <- st
Classify(f) == ClassifyWith(NewContext, f)

ClassNext == \E f \in Corpus : Alive /\ Classify(f)

\* the classifier alone: the walk stands still at a tree of plain files
ClassInit == Init /\ kind = [n \in Nodes |-> "reg"]

ClassSpec == ClassInit /\ [][ClassNext]_vars

Classified == 1 .. Len(records)

\* C9: a regular file that cannot be opened yields a record with line count 0
\* and the run goes on: no probe, filter, verifier or scanner reads from a
\* context whose open failed.
C9_UnopenableCountsZero ==
    /\ crashed # NilReader
    /\ \A i \in Classified :
          ~records[i].file.openable => records[i].stat.SLOC = 0

NoUnmodelledBranch == \A i \in Classified : records[i].stat # Unmodelled

(* ================= the scanners, one file at a time ================= *)
\* the number of lines of a scanned file
MaxLines == 3

\* The scanners with the syntax each is run with: the C-family scanner on the
\* rows c and go, genericCounter as the scripting rows call it, the Python and
\* Perl scanners, the Pascal-like scanner with and without bracket comments,
\* the Fortran-like scanner in both dialects.
ScanRules ==
    { [name |-> "c", suffix |-> ".c", kind |-> "c_family"],
      [name |-> "go", suffix |-> ".go", kind |-> "c_family"],
      [name |-> "shell", suffix |-> ".sh", kind |-> "generic"],
      [name |-> "python", suffix |-> ".py", kind |-> "python"],
      [name |-> "perl", suffix |-> ".pm", kind |-> "perl"],
      [name |-> "pascal", suffix |-> ".pas", kind |-> "pascal"],
      [name |-> "modula3", suffix |-> ".m3", kind |-> "pascal"],
      [name |-> "fortran90", suffix |-> ".f90", kind |-> "fortran"],
      [name |-> "fortran", suffix |-> ".f77", kind |-> "fortran"] }

\* the row of table t that carries the name and the suffix of rule
RowOf(t, rule) ==
    t[CHOOSE i \in 1 .. Len(t) :
          t[i].name = rule.name /\ t[i].suffix = rule.suffix]

\* the scanner of rule run on file f with context ctx
RunScanner(rule, ctx, f) ==
    IF rule.kind = "c_family"
    THEN c_family_counter(ctx, f, RowOf(genericLanguages, rule))
    ELSE IF rule.kind = "generic" THEN genericCounter(ctx, f, <<"#">>, "nil")
    ELSE IF rule.kind = "python" THEN pythonCounter(ctx, f)
    ELSE IF rule.kind = "perl" THEN perlCounter(ctx, f)
    ELSE IF rule.kind = "pascal"
    THEN pascalCounter(ctx, f, RowOf(pascalLikes, rule))
    ELSE fortranCounter(ctx, f, RowOf(fortranLikes, rule))

\* the lines (without their newline) the scanned files are made of, by scanner
Vocabulary(rule) ==
    IF rule.kind = "c_family" THEN
        { <<"a">>, <<" ", "a">>, <<"%", "a">>, <<>>, <<" ">>,
          <<"/", "*">>, <<"*", "/">>, <<"/", "*", "c", "*", "/">>,
          <<"/", "/", "c">>, <<"a", "/", "*", "c", "*", "/">>,
          <<"a", "/", "/", "c">>, <<DQ, "a", DQ>>, <<"a", DQ>>, <<"a", SQ>>,
          <<"%">>, <<DQ, BS, DQ>>, <<DQ, BS, BS, DQ>>, <<DQ, BS>>,
          <<SQ, "a", SQ>>, <<SQ, BS, "a", SQ>>, <<SQ, DQ, SQ>>,
          <<SQ, BS, SQ, SQ>>, <<SQ, BS, BS, SQ>> }
        \cup (IF rule.name = "go" THEN {<<"a", BQ>>} ELSE {})
    ELSE IF rule.kind = "generic" THEN
        { <<"a">>, <<" ", "a", " ">>, <<>>, <<" ">>, <<"#", "c">>,
          <<"a", "#", "c">>, <<"a", " ", "#">>, <<"%", "%">>,
          <<"#", "!", "sh">>, <<"#", GEN>>, <<"load_lib", " ", "a", "#">> }
    ELSE IF rule.kind = "python" THEN
        { <<"a">>, <<>>, <<" ">>, <<"#", "c">>, <<"a", "#", "c">>,
          DT, <<" ">> \o DT, <<"x", "=">> \o DT, DT \o <<"D">>, <<"D">> \o DT,
          ST, DT \o <<"D", "o">> \o DT, DT \o <<"a">>, <<DQ, "D", DQ>>,
          DT \o <<"D">> \o DT }
    ELSE IF rule.kind = "perl" THEN
        { <<"a">>, <<>>, <<"#", "c">>, <<"a", "#", "c">>, <<"=", "p">>,
          CutWord, <<"a", "<", "<", "E", ";">>, <<"E">>, EndWord,
          <<"=", "p", "<", "<", "E">>,
          <<"a", "<", "<", DQ>> \o CutWord \o <<DQ, ";">> }
    ELSE IF rule.kind = "pascal" THEN
        { <<"a">>, <<" ", "a">>, <<>>, <<" ">>, <<"{">>, <<"}">>,
          <<"(", "*">>, <<"*", ")">>, <<"{", "c", "}">>,
          <<"a", "{", "c", "}">>, <<"a", "(", "*", "c", "*", ")">>,
          <<"a", "{">>, <<"}", "a">> }
    ELSE
        { <<" ", "a">>, <<"a">>, <<>>, <<" ">>, <<"!", "c">>, <<"c", "a">>,
          <<"*", "c">>, <<" ", "!", "c">>, <<" ", "a", "!", "c">>,
          <<"a", "!", "c">>, <<"!", "o", "m", "p", "$">> }

RECURSIVE Join(_)
\* the bytes of a file whose lines are ls, each ended by a newline
Join(ls) == IF ls = <<>> THEN <<>> ELSE ls[1] \o <<NL>> \o Join(Tail(ls))

\* the files made of at most MaxLines lines of the vocabulary; the last line
\* with or without its newline
Texts(rule) ==
    LET whole == UNION {[1 .. n -> Vocabulary(rule)] : n \in 0 .. MaxLines}
    IN  {Join(ls) : ls \in whole}
        \cup {SubSeq(Join(ls), 1, Len(Join(ls)) - 1) : ls \in whole \ {<<>>}}

\* One run of the scanner of rule on a file holding the bytes b, with a fresh
\* context: the stat carries the rule's name and the count.
Scan(rule, b) ==
    LET f == File("x", rule.suffix, FALSE, TRUE, b)
        n == RunScanner(rule, NewContext, f)
    IN  /\ records = <<>>
        /\ records' = <<[file |-> f, stat |-> Stat(rule.name, n.val)]>>
        /\ lastctx' = n.ctx
        /\ UNCHANGED crashed
        /\ UNCHANGED wvars

ScanNext ==
    /\ Alive /\ records = <<>>
    /\ \E rule \in ScanRules : \E b \in Texts(rule) : Scan(rule, b)

ScanSpec == ClassInit /\ [][ScanNext]_vars

\* the scanner and the bytes of the scan a state records
Scanned == records # <<>>
ScannedRule == CHOOSE rule \in ScanRules : rule.name = records[1].stat.Language
ScannedBytes == records[1].file.bytes

\* the count the scanner of rule returns on the bytes b
Count(rule, b) ==
    RunScanner(rule, NewContext, File("x", rule.suffix, FALSE, TRUE, b)).val

\* the physical lines of b: one per newline, and one more for bytes after the
\* last newline
NewlinesOf(b) == {j \in 1 .. Len(b) : b[j] = NL}
PhysicalLines(b) ==
    Cardinality(NewlinesOf(b)) + (IF b # <<>> /\ b[Len(b)] # NL THEN 1 ELSE 0)

\* the first i physical lines of b
UpTo(b, i) ==
    IF i >= PhysicalLines(b) THEN b
    ELSE IF i = 0 THEN <<>>
    ELSE SubSeq(b, 1, CHOOSE j \in NewlinesOf(b) :
                          Cardinality({h \in NewlinesOf(b) : h <= j}) = i)

\* what physical line i of b adds to the count
Adds(rule, b, i) == Count(rule, UpTo(b, i)) - Count(rule, UpTo(b, i - 1))

\* C11: the count a scanner returns never exceeds the number of physical
\* lines of the file, and no physical line adds more than 1 to it.
C11_AtMostOnePerLine ==
    Scanned =>
        /\ records[1].stat.SLOC <= PhysicalLines(ScannedBytes)
        /\ \A i \in 1 .. PhysicalLines(ScannedBytes) :
               Adds(ScannedRule, ScannedBytes, i) <= 1

\* a scan of a file of MaxLines lines, each of which was counted
C11_Witness ==
    /\ Scanned
    /\ PhysicalLines(ScannedBytes) = MaxLines
    /\ records[1].stat.SLOC = MaxLines
    /\ ScannedRule.kind = "c_family"
    /\ ScannedBytes[Len(ScannedBytes)] # NL

\* the characters of a statement: letters and the percent sign, none of which
\* opens a comment, a quote or a multi-line construct in any scanner
StatementChars == {"a", "c", "x", "D", "E", "o", "p", "%"}

\* line (with its newline) holds one statement for the scanner of rule: some
\* statement character, otherwise blanks, and for fixed-form Fortran no
\* comment letter in column 1
IsStatement(rule, line) ==
    /\ Len(line) > 1 /\ line[Len(line)] = NL
    /\ \A j \in 1 .. Len(line) - 1 : line[j] \in StatementChars \cup {" "}
    /\ \E j \in 1 .. Len(line) - 1 : line[j] \in StatementChars
    /\ rule.name = "fortran" => line[1] \notin {"c", "*", "!"}

\* every byte of b belongs to a line ended by a newline
Terminated(b) == b = <<>> \/ b[Len(b)] = NL

\* b is made of statements only, each on a line of its own
OnlyStatements(rule, b) ==
    /\ Terminated(b)
    /\ \A i \in 1 .. Len(Lines(b)) : IsStatement(rule, Lines(b)[i])

\* C12: a file of N newline-terminated lines, each holding one statement and
\* no comment, quote or multi-line construct, counts N in every scanner.
C12_StatementsAddUp ==
    Scanned /\ OnlyStatements(ScannedRule, ScannedBytes) =>
        records[1].stat.SLOC = Len(Lines(ScannedBytes))

\* a free-form Fortran file of MaxLines statements, one with a c in column 1
C12_Witness ==
    /\ Scanned
    /\ OnlyStatements(ScannedRule, ScannedBytes)
    /\ ScannedRule.name = "fortran90"
    /\ Len(Lines(ScannedBytes)) = MaxLines
    /\ \E i \in 1 .. MaxLines : Lines(ScannedBytes)[i][1] = "c"
    /\ records[1].stat.SLOC = MaxLines

\* b without the newline that ends it, if one does
Chomp(b) == IF b # <<>> /\ b[Len(b)] = NL THEN SubSeq(b, 1, Len(b) - 1) ELSE b

\* b is one block comment of the C family: the leader, a text that does not
\* hold the trailer, the trailer, and at most the newline that ends the line
IsBlockComment(b) ==
    LET core == Chomp(b)
    IN  /\ Len(core) >= 4
        /\ OccursAt(core, <<"/", "*">>, 1)
        /\ OccursAt(core, <<"*", "/">>, Len(core) - 1)
        /\ \A p \in 3 .. Len(core) - 2 : ~OccursAt(core, <<"*", "/">>, p)

\* C13: a file that is one block comment, over any number of lines and
\* whatever its text holds, counts 0 in the C-family scanner.
C13_BlockCommentCountsZero ==
    Scanned /\ ScannedRule.kind = "c_family" /\ IsBlockComment(ScannedBytes) =>
        records[1].stat.SLOC = 0

\* physical line i of b, with its newline if it has one
LineAt(b, i) == SubSeq(b, Len(UpTo(b, i - 1)) + 1, Len(UpTo(b, i)))

\* the comment forms of each scanner: a leader and, for a block form, a trailer
CommentForms(rule) ==
    IF rule.kind = "c_family"
    THEN {[open |-> <<"/", "/">>, close |-> <<>>],
          [open |-> <<"/", "*">>, close |-> <<"*", "/">>]}
    ELSE IF rule.kind \in {"generic", "python", "perl"}
    THEN {[open |-> <<"#">>, close |-> <<>>]}
    ELSE IF rule.kind = "pascal"
    THEN {[open |-> <<"(", "*">>, close |-> <<"*", ")">>]}
         \cup (IF RowOf(pascalLikes, rule).bracketcomments
               THEN {[open |-> <<"{">>, close |-> <<"}">>]} ELSE {})
    ELSE {[open |-> <<"!">>, close |-> <<>>]}

\* text is one comment of the form cf and nothing else
IsComment(cf, text) ==
    /\ OccursAt(text, cf.open, 1)
    /\ cf.close # <<>> =>
           /\ Len(text) >= Len(cf.open) + Len(cf.close)
           /\ Index(SubSeq(text, Len(cf.open) + 1, Len(text)), cf.close)
                  = Len(text) - Len(cf.open) - Len(cf.close) + 1

\* code holds a statement: statement characters and blanks, not all blank
IsCode(rule, code) == IsStatement(rule, code \o <<NL>>)

\* line holds code followed by one trailing comment of the scanner
IsMixed(rule, line) ==
    \E cf \in CommentForms(rule) : \E p \in 2 .. Len(Chomp(line)) :
        /\ IsCode(rule, SubSeq(Chomp(line), 1, p - 1))
        /\ IsComment(cf, SubSeq(Chomp(line), p, Len(Chomp(line))))

\* line holds blanks only, or blanks and one comment
IsBlankLine(line) == \A j \in 1 .. Len(Chomp(line)) : Chomp(line)[j] = " "
IsCommentLine(rule, line) ==
    \E cf \in CommentForms(rule) : \E p \in 1 .. Len(Chomp(line)) :
        /\ IsBlankLine(SubSeq(Chomp(line), 1, p - 1))
        /\ IsComment(cf, SubSeq(Chomp(line), p, Len(Chomp(line))))

\* every line of b is a statement, a mixed line, a blank line or a comment
\* line: no construct is left open at the end of a line
Clean(rule, b) ==
    \A i \in 1 .. PhysicalLines(b) :
        \/ IsCode(rule, Chomp(LineAt(b, i)))
        \/ IsMixed(rule, LineAt(b, i))
        \/ IsBlankLine(LineAt(b, i))
        \/ IsCommentLine(rule, LineAt(b, i))

\* the scanners that read the file a line at a time
LineBased(rule) == rule.kind \in {"generic", "python", "perl", "fortran"}

\* the scanner of rule reads line i of b: a line-based scanner reads the
\* lines that end with a newline
IsRead(rule, b, i) == LineBased(rule) => Terminated(LineAt(b, i))

After(line, q) == SubSeq(line, Index(line, q) + Len(q), Len(line))

\* line opens a triple-quoted span with marker q as its first non-blank text,
\* and the span does not close on the line
OpensComment(line, q) ==
    /\ HasPrefix(Trim(line), q)
    /\ ~triple_boundary(After(line, q))

\* line opens a triple-quoted span with marker q after other text (names, =
\* and blanks), and the span does not close on the line
OpensData(line, q) ==
    /\ Index(line, q) > 1
    /\ \A h \in 1 .. Index(line, q) - 1 : line[h] \in StatementChars \cup {"=", " "}
    /\ \E h \in 1 .. Index(line, q) - 1 : line[h] # " "
    /\ ~triple_boundary(After(line, q))

\* line closes a span of marker q: the marker ends the text of the line and
\* stands nowhere before
ClosesSpan(line, q) ==
    /\ Terminated(line)
    /\ Index(line, q) > 0
    /\ Trim(After(line, q)) = <<>>

\* lines i to j of b are a triple-quoted span of marker q met outside any
\* span: no marker before line i, q on no line between i and j
Span(b, i, j, q) ==
    /\ 1 <= i /\ i < j /\ j <= PhysicalLines(b)
    /\ \A h \in 1 .. i - 1 : ~triple_boundary(LineAt(b, h))
    /\ OpensComment(LineAt(b, i), q) \/ OpensData(LineAt(b, i), q)
    /\ \A h \in i + 1 .. j - 1 : Index(LineAt(b, h), q) = 0
    /\ ClosesSpan(LineAt(b, j), q)

\* C15: in the Python scanner a triple-quoted span whose opening marker is the
\* first non-blank text of its line adds 0 for every line from the opener
\* through the closer; a span whose opening marker follows other text counts
\* its opening line, every non-blank interior line and its closing line.
C15_TripleQuoteSpans ==
    Scanned /\ ScannedRule.kind = "python" =>
        \A q \in {DT, ST} : \A i, j \in 1 .. PhysicalLines(ScannedBytes) :
            Span(ScannedBytes, i, j, q) =>
                /\ OpensComment(LineAt(ScannedBytes, i), q) =>
                       \A h \in i .. j : Adds(ScannedRule, ScannedBytes, h) = 0
                /\ OpensData(LineAt(ScannedBytes, i), q) =>
                       \A h \in i .. j :
                           Trim(LineAt(ScannedBytes, h)) # <<>> =>
                               Adds(ScannedRule, ScannedBytes, h) = 1

\* line opens a documentation block: = and a letter in columns 1 and 2, and
\* not the =cut that closes one
OpensPod(line) ==
    /\ Len(line) >= 2 /\ line[1] = "=" /\ line[2] \in Letters
    /\ ~HasPrefix(line, CutWord)

\* lines i to j of b are a documentation block met with no here-document
\* pending and outside any block: statements, blank lines and comments before
\* line i, the next =cut on line j
PodBlock(b, i, j) ==
    /\ 1 <= i /\ i < j /\ j <= PhysicalLines(b)
    /\ Clean([name |-> "perl", suffix |-> ".pm", kind |-> "perl"], UpTo(b, i - 1))
    /\ OpensPod(LineAt(b, i))
    /\ \A h \in i + 1 .. j - 1 : ~HasPrefix(LineAt(b, h), CutWord)
    /\ HasPrefix(LineAt(b, j), CutWord)
    /\ Terminated(LineAt(b, j))

\* C16: in the Perl scanner, with no here-document pending, every line from
\* the opening line of a documentation block through the next =cut line adds
\* 0, and the line after that =cut is counted again.
C16_PodBlockAddsNothing ==
    Scanned /\ ScannedRule.kind = "perl" =>
        \A i, j \in 1 .. PhysicalLines(ScannedBytes) :
            PodBlock(ScannedBytes, i, j) =>
                /\ \A h \in i .. j : Adds(ScannedRule, ScannedBytes, h) = 0
                /\ j < PhysicalLines(ScannedBytes)
                       /\ IsStatement(ScannedRule, LineAt(ScannedBytes, j + 1))
                   => Adds(ScannedRule, ScannedBytes, j + 1) = 1

\* the terminator a here-document opening line names: the text after <<
\* without blanks, quotes and the semicolon
HereWord(line) == TrimOf(After(Chomp(line), HereMark), {" ", DQ, SQ, ";"})

\* lines i to j of b are a here-document opened outside any documentation
\* block: statements, blank lines and comments before line i, code and <<
\* with a terminator on line i, the terminator first on line j
HereDocument(b, i, j) ==
    /\ 1 <= i /\ i < j /\ j <= PhysicalLines(b)
    /\ Clean([name |-> "perl", suffix |-> ".pm", kind |-> "perl"], UpTo(b, i - 1))
    /\ Index(LineAt(b, i), HereMark) > 1
    /\ IsCode([name |-> "perl", suffix |-> ".pm", kind |-> "perl"],
              SubSeq(LineAt(b, i), 1, Index(LineAt(b, i), HereMark) - 1))
    /\ HereWord(LineAt(b, i)) # <<>>
    /\ \A h \in i + 1 .. j - 1 :
           ~HasPrefix(Trim(LineAt(b, h)), HereWord(LineAt(b, i)))
    /\ Trim(LineAt(b, j)) = HereWord(LineAt(b, i))
    /\ Terminated(LineAt(b, j))

\* the state of the Perl scanner after the first h lines of b
PerlAfter(b, h) == PerlRun(PerlStart, Lines(UpTo(b, h)))

\* C17: in the Perl scanner, while a here-document opened outside a
\* documentation block is pending, every interior line that is non-empty after
\* trimming is counted, whatever it reads like, and changes neither the
\* documentation-block flag nor the pending terminator; the terminator line
\* ends the here-document even when it reads like =cut.
C17_HereDocumentCounted ==
    Scanned /\ ScannedRule.kind = "perl" =>
        \A i, j \in 1 .. PhysicalLines(ScannedBytes) :
            HereDocument(ScannedBytes, i, j) =>
                /\ \A h \in i + 1 .. j - 1 :
                       /\ PerlLine(LineAt(ScannedBytes, h)) # <<>> =>
                              Adds(ScannedRule, ScannedBytes, h) = 1
                       /\ ~PerlAfter(ScannedBytes, h).isinpod
                       /\ PerlAfter(ScannedBytes, h).heredoc
                              = HereWord(LineAt(ScannedBytes, i))
                /\ PerlAfter(ScannedBytes, j).heredoc = <<>>

(* ================= claims on the classifier's tables ================= *)
\* the rows of genericLanguages whose suffix the path of f has
MatchingRows(f) ==
    {i \in 1 .. Len(genericLanguages) : HasSuffix(f.path, genericLanguages[i].suffix)}

\* what row i of genericLanguages counts on f, taken alone
RowCount(i, f) == CountRow(genericLanguages[i], NewContext, f).val

\* the generated-file filter of row i of genericLanguages holds f back
RowFilters(i, f) ==
    was_generated_automatically(NewContext, f, genericLanguages[i].eolcomment).val

\* the rows of genericLanguages that match f and count it as non-zero
CountingRows(f) == {i \in MatchingRows(f) : RowCount(i, f) > 0}

\* the verifier of a row accepts f
Accepts(verifier, f) ==
    IF verifier = "really_is_lex" THEN really_is_lex(NewContext, f).val
    ELSE really_is_expect(NewContext, f).val

\* the files of the run that the rows of genericLanguages decide: they can be
\* opened and no matching row's generated-file filter holds them back
DecidedByRows(i) ==
    /\ records[i].file.openable
    /\ \A k \in MatchingRows(records[i].file) : ~RowFilters(k, records[i].file)

\* C18: the language reported is that of the first matching rule in table
\* order whose count is non-zero; so when two rules match a suffix and only
\* the second has no verifier, a file the first rule's verifier rejects and
\* the second rule counts as non-zero is reported with the second's language.
C18_FirstCountingRuleWins ==
    \A i \in Classified :
        DecidedByRows(i) /\ CountingRows(records[i].file) # {} =>
            \E w \in CountingRows(records[i].file) :
                /\ \A k \in CountingRows(records[i].file) : w <= k
                /\ records[i].stat
                       = Stat(genericLanguages[w].name, RowCount(w, records[i].file))

\* x.l holding lisp: the lex row comes first and its verifier rejects the
\* file, the lisp row has no verifier and counts one line
C18_Witness ==
    \E i \in Classified :
        /\ records[i].file = LispL
        /\ MatchingRows(LispL) = {3, 7}
        /\ genericLanguages[3].verifier # "nil"
        /\ ~Accepts(genericLanguages[3].verifier, LispL)
        /\ genericLanguages[7].verifier = "nil"
        /\ records[i].stat = Stat("lisp", 1)

\* the rows of the tables that carry a verifier this model holds: lex in
\* genericLanguages, expect in scriptingLanguages
VerifiedRows ==
    {genericLanguages[i] : i \in {k \in 1 .. Len(genericLanguages) :
                                      genericLanguages[k].verifier # "nil"}}
    \cup {[name |-> scriptingLanguages[i].name,
           verifier |-> scriptingLanguages[i].verifier] :
              i \in {k \in 1 .. Len(scriptingLanguages) :
                         scriptingLanguages[k].verifier # "nil"}}

\* C19: in every table a rule's verifier runs before its scanner and a false
\* result makes the rule yield nothing: no record attributes a file to a rule
\* whose verifier rejects it.
C19_VerifierGuardsEveryRule ==
    \A i \in Classified : \A row \in VerifiedRows :
        records[i].stat.Language = row.name =>
            Accepts(row.verifier, records[i].file)

\* the comment leaders of the rules whose suffix the path of f has
LeadersOf(f) ==
    UNION {{genericLanguages[i].commentleader, genericLanguages[i].eolcomment} :
               i \in MatchingRows(f)}
    \cup (IF \E i \in 1 .. Len(scriptingLanguages) :
                 HasSuffix(f.path, scriptingLanguages[i].suffix)
          THEN {<<"#">>} ELSE {})
    \cup (IF \E e \in {".py", ".pl", ".pm", ".ph"} : HasSuffix(f.path, e)
          THEN {<<"#">>} ELSE {})
    \cup (IF \E i \in 1 .. Len(pascalLikes) :
                 HasSuffix(f.path, pascalLikes[i].suffix)
          THEN {<<"(", "*">>} ELSE {})
    \cup (IF \E i \in 1 .. Len(pascalLikes) :
                 /\ HasSuffix(f.path, pascalLikes[i].suffix)
                 /\ pascalLikes[i].bracketcomments
          THEN {<<"{">>} ELSE {})
    \cup (IF \E i \in 1 .. Len(fortranLikes) :
                 HasSuffix(f.path, fortranLikes[i].suffix)
          THEN {<<"!">>} ELSE {})

\* line holds a comment leader of a rule that matches f and, after it, the
\* phrase of a generated file
MarkedLine(f, line) ==
    \E m \in LeadersOf(f) \ {<<>>} : \E p \in 1 .. Len(line) :
        /\ OccursAt(line, m, p)
        /\ \E q \in p + 1 .. Len(line) : line[q] = GEN

\* the lines of f that hold the phrase of a generated file
PhraseLines(f) ==
    {j \in 1 .. Len(Lines(f.bytes)) :
         \E q \in 1 .. Len(Lines(f.bytes)[j]) : Lines(f.bytes)[j][q] = GEN}

\* f with every phrase of a generated file replaced by a plain word
Unmarked(f) ==
    [f EXCEPT !.bytes = [j \in 1 .. Len(f.bytes) |->
                             IF f.bytes[j] = GEN THEN "b" ELSE f.bytes[j]]]

\* C20: a file matched by a rule, one of whose first 15 lines holds a comment
\* marker followed by a generated-file phrase, gets line count 0 and no
\* language; a phrase that first stands on line 16 or later does not hold the
\* file back: the record is the one the file gets without the phrase.
C20_GeneratedFilesDropped ==
    \A i \in Classified :
        /\ (\E j \in 1 .. Min(GenLines, Len(Lines(records[i].file.bytes))) :
                MarkedLine(records[i].file, Lines(records[i].file.bytes)[j]))
           => records[i].stat = NoStat
        /\ (/\ PhraseLines(records[i].file) # {}
            /\ \A j \in PhraseLines(records[i].file) : j > GenLines
            /\ LeadersOf(records[i].file) # {})
           => records[i].stat = Generic(NewContext, Unmarked(records[i].file)).stat

(* ================= the walk over paths: what filter keeps ================= *)
\* Paths are sequences of tokens: the separator, the dot, the tilde, and words
\* that hold none of them, so that prefix, infix and suffix tests on the
\* sequences are the tests of the strings.
SEP == "/"
DOT == "."
TILDE == "~"

\* the text every file of the tree holds: one line of C
OneLine == <<"a", ";", NL>>

\* the tree below the working directory: per entry its name, what Lstat says
\* it is, the file Generic would read through it, its entries as
\* readDirNames returns them (sorted as bytes), and the target of a link
Entry(name, type, file, kids, target) ==
    [name |-> name, type |-> type, file |-> file, kids |-> kids,
     target |-> target]

Dir(name, kids) == Entry(name, "dir", File("", "", FALSE, FALSE, <<>>), kids, 0)

Reg(name, stem, ext) ==
    Entry(name, "reg", File(stem, ext, FALSE, TRUE, OneLine), <<>>, 0)

Link(name, stem, ext, target) ==
    Entry(name, "symlink", File(stem, ext, FALSE, TRUE, OneLine), <<>>, target)

FS ==
    <<Dir(<<DOT>>, <<2, 3, 4, 5, 6, 7, 8, 9, 10>>),
      Dir(<<DOT, "git">>, <<11>>),
      Reg(<<DOT, "x", DOT, "c">>, ".x", ".c"),
      Reg(<<"README">>, "README", ""),
      Link(<<"ln", DOT, "c">>, "ln", ".c", 8),
      Link(<<"lnd">>, "lnd", "", 7),
      Dir(<<"src">>, <<12, 13, 14, 15, 16, 17>>),
      Reg(<<"x", DOT, "c">>, "x", ".c"),
      Reg(<<"x", DOT, "c", TILDE>>, "x", ".c~"),
      Reg(<<"x", DOT, "o">>, "x", ".o"),
      Reg(<<"x", DOT, "c">>, "x", ".c"),
      Dir(<<DOT, "git">>, <<18>>),
      Reg(<<"Makefile">>, "Makefile", ""),
      Reg(<<"Makefile", DOT, "in">>, "Makefile", ".in"),
      Dir(<<"sub">>, <<19>>),
      Dir(<<"sub", "2">>, <<20>>),
      Reg(<<"y", DOT, "c">>, "y", ".c"),
      Reg(<<"y", DOT, "c">>, "y", ".c"),
      Reg(<<"y", DOT, "c">>, "y", ".c"),
      Reg(<<"y", DOT, "c">>, "y", ".c")>>

Entries == DOMAIN FS

\* the directory that holds entry n (0 for the working directory)
DirOf(n) ==
    IF \E d \in Entries : \E j \in DOMAIN FS[d].kids : FS[d].kids[j] = n
    THEN CHOOSE d \in Entries : \E j \in DOMAIN FS[d].kids : FS[d].kids[j] = n
    ELSE 0

\* os.Stat follows a symbolic link, os.Lstat does not
StatType(n) == IF FS[n].type = "symlink" THEN FS[FS[n].target].type
               ELSE FS[n].type

\* os.Stat(path + ".in") succeeds: the directory of n holds that name
HasDotIn(n) ==
    /\ DirOf(n) # 0
    /\ \E j \in DOMAIN FS[DirOf(n)].kids :
           FS[FS[DirOf(n)].kids[j]].name = FS[n].name \o <<DOT, "in">>

\* filepath.Ext(path): from the final dot of the final element, else empty
Ext(path) ==
    IF \E i \in DOMAIN path :
           path[i] = DOT /\ \A j \in i .. Len(path) : path[j] # SEP
    THEN LET i == CHOOSE h \in DOMAIN path :
                      /\ path[h] = DOT
                      /\ \A j \in h + 1 .. Len(path) : path[j] \notin {SEP, DOT}
         IN  SubSeq(path, i, Len(path))
    ELSE <<>>

\* filepath.Base(path): the final element
Base(path) ==
    IF \E i \in DOMAIN path : path[i] = SEP
    THEN LET i == CHOOSE h \in DOMAIN path :
                      path[h] = SEP /\ \A j \in h + 1 .. Len(path) : path[j] # SEP
         IN  SubSeq(path, i + 1, Len(path))
    ELSE path

\* strings.ToLower, on the words of the tree
ToLower(path) ==
    [i \in DOMAIN path |->
        CASE path[i] = "README" -> "readme"
          [] path[i] = "Makefile" -> "makefile"
          [] OTHER -> path[i]]

\* filepath.Join(here, name): the result is cleaned
PathJoin(path, name) ==
    IF path = <<DOT>> THEN name ELSE path \o <<SEP>> \o name

\* entries of ignoreSuffixes, neverInterestingByPrefix, neverInterestingByInfix
\* and neverInterestingByBasename
ignoreSuffixes ==
    {<<TILDE>>, <<DOT, "a">>, <<DOT, "o">>, <<DOT, "so">>, <<DOT, "png">>,
     <<DOT, "html">>, <<DOT, "txt">>, <<DOT, "gz">>}

neverInterestingByPrefix == {<<DOT>>}

neverInterestingByInfix == {<<DOT, "so", DOT>>, <<SEP, DOT>>}

neverInterestingByBasename ==
    {<<"readme">>, <<"changelog">>, <<"configure">>, <<"todo">>,
     <<"y", DOT, "tab", DOT, "c">>}

\* path == exclusions[i] || strings.HasPrefix(path, exclusions[i]+"/")
Excluded_prefix(path, e) == path = e \/ HasPrefix(path, e)

Excluded(path, e) == path = e \/ HasPrefix(path, e \o <<SEP>>)

\* filter(path, info, nil) on entry n as the walk names it: the value it
\* returns, whether it sends a record, and the record's stat.  The tests are
\* taken in the order of the code.
filterPath(path, n, excl) ==
    LET keep(r) == [ret |-> r, emit |-> FALSE, stat |-> Stat("", 0)]
    IN  IF Ext(path) # <<>> /\ Ext(path) \in ignoreSuffixes THEN keep(None)
        ELSE IF \E p \in neverInterestingByPrefix : HasPrefix(path, p)
        THEN keep(None)
        ELSE IF \E p \in neverInterestingByInfix : Index(path, p) > 0
        THEN IF StatType(n) = "dir" THEN keep(SkipDir) ELSE keep(None)
        ELSE IF ToLower(Base(path)) \in neverInterestingByBasename
        THEN keep(None)
        ELSE IF \E e \in excl : Excluded(path, e) THEN keep(None)
        ELSE IF StatType(n) # "reg" THEN keep(None)
        ELSE IF Base(path) = <<"Makefile">> /\ HasDotIn(n) THEN keep(None)
        ELSE [ret |-> None, emit |-> TRUE,
              stat |-> Generic(NewContext, FS[n].file).stat]

\* the roots Walk is given, with the entry each names, and the values of -x
Roots ==
    {[path |-> <<DOT>>, node |-> 1], [path |-> <<"src">>, node |-> 7],
     [path |-> <<DOT, "git">>, node |-> 2]}

ExclusionSets ==
    {{}, {<<"src", SEP, "sub">>}, {<<"src", SEP, "sub", SEP, "y", DOT, "c">>},
     {<<"src", SEP, "sub">>, <<"x", DOT, "c">>}, {<<"src">>},
     {<<"src", SEP, "sub", SEP>>}}

\* Walk: the root goes on ws.v
PathInit ==
    /\ InitTree /\ kind = [n \in Nodes |-> "reg"]
    /\ InitReport
    /\ \E r \in Roots :
        /\ root = r.path
        /\ pending = <<r>>
    /\ exclusions \in ExclusionSets
    /\ here = <<>>
    /\ todo = <<>>
    /\ calls = <<>>
    /\ reads = {}

\* one call of walkFn, as the history keeps it
Call(path, n, excl) ==
    [path |-> path, node |-> n] @@ filterPath(path, n, excl)

\* visitFile, up to its loop: walkFn on the file taken from ws.v, then
\* readDirNames unless the directory is skipped
VisitTaken ==
    /\ todo = <<>> /\ pending # <<>>
    /\ \E c \in {Call(Head(pending).path, Head(pending).node, exclusions)} :
           /\ calls' = Append(calls, c)
           /\ pending' = Tail(pending)
           /\ IF c.ret # None \/ FS[c.node].type # "dir"
              THEN UNCHANGED <<here, todo, reads>>
              ELSE /\ reads' = reads \cup {c.path}
                   /\ here' = c.path
                   /\ todo' = FS[c.node].kids
    /\ UNCHANGED <<root, exclusions>>

\* one turn of the loop of visitFile: Lstat on the joined path; a directory
\* goes on ws.v, anything else is handed to walkFn at once
VisitEntry ==
    /\ todo # <<>>
    /\ LET n == Head(todo)
           path == PathJoin(here, FS[n].name)
       IN  IF FS[n].type = "dir"
           THEN /\ pending' = Append(pending, [path |-> path, node |-> n])
                /\ UNCHANGED calls
           ELSE /\ calls' = Append(calls, Call(path, n, exclusions))
                /\ UNCHANGED pending
    /\ todo' = Tail(todo)
    /\ UNCHANGED <<root, exclusions, here, reads>>

PathNext ==
    \/ VisitTaken /\ UNCHANGED <<tvars, rvars, lastctx, records, crashed>>
    \/ VisitEntry /\ UNCHANGED <<tvars, rvars, lastctx, records, crashed>>

PathSpec == PathInit /\ [][PathNext]_vars

\* the records sent down the pipeline so far
Sent == {i \in DOMAIN calls : calls[i].emit}

(* ---------------- C21-C24: what the walk over paths emits ---------------- *)
\* an element of the path begins with a dot and is more than the dot alone
DotNamed(path) ==
    \E i \in DOMAIN path :
        /\ path[i] = DOT
        /\ i = 1 \/ path[i - 1] = SEP
        /\ i < Len(path) /\ path[i + 1] # SEP

\* C21: a directory or file whose name or path begins with a dot is pruned,
\* whichever root was given: no record is sent for it or for a path beneath
\* it, and the walker does not read such a directory.
C21_DotPathsPruned ==
    \A i \in DOMAIN calls :
        DotNamed(calls[i].path) =>
            ~calls[i].emit /\ calls[i].path \notin reads

\* the part of C21 that is about records
NoDotRecord == \A i \in Sent : ~DotNamed(calls[i].path)

\* the name ends with s
EndsIn(path, s) ==
    /\ Len(s) <= Len(path)
    /\ SubSeq(path, Len(path) - Len(s) + 1, Len(path)) = s

\* the name ends with an entry of the ignored-suffix list, or its lower-cased
\* base name is in the ignored-basename list
IgnoredName(path) ==
    \/ \E s \in ignoreSuffixes : EndsIn(path, s)
    \/ ToLower(Base(path)) \in neverInterestingByBasename

\* C22: no record is sent for a regular file whose name ends with an entry of
\* the ignored-suffix list (the backup suffix "~" included) or whose
\* lower-cased base name is in the ignored-basename list.
C22_IgnoredNamesSkipped ==
    \A i \in DOMAIN calls :
        FS[calls[i].node].type = "reg" /\ IgnoredName(calls[i].path) =>
            ~calls[i].emit

\* the part of C22 that is about the entries that begin with a dot and about
\* the base names
DottedIgnoredName(path) ==
    \/ \E s \in ignoreSuffixes : s[1] = DOT /\ EndsIn(path, s)
    \/ ToLower(Base(path)) \in neverInterestingByBasename

NoIgnoredRecord == \A i \in Sent : ~DottedIgnoredName(calls[i].path)

RECURSIVE PathOf(_)
\* the path of entry n from the working directory
PathOf(n) ==
    IF DirOf(n) = 0 THEN FS[n].name
    ELSE PathJoin(PathOf(DirOf(n)), FS[n].name)

RECURSIVE Under(_, _)
\* entry n lies in directory d or beneath it
Under(n, d) == DirOf(n) # 0 /\ (DirOf(n) = d \/ Under(DirOf(n), d))

\* the exclusion e names entry n or a directory above it
Covers(e, n) ==
    \E d \in Entries : PathOf(d) = e /\ (d = n \/ Under(n, d))

\* the path has e as a string prefix and no separator follows
SharesPrefix(path, e) ==
    /\ HasPrefix(path, e)
    /\ Len(path) > Len(e)
    /\ path[Len(e) + 1] # SEP

C24_SymlinksSkipped ==
    \A i \in DOMAIN calls : FS[calls[i].node].type = "symlink" => ~calls[i].emit

\* a link to a directory is neither read nor reported
LinkToDirSkipped ==
    \A i \in DOMAIN calls :
        FS[calls[i].node].type = "symlink" /\ StatType(calls[i].node) = "dir" =>
            ~calls[i].emit /\ calls[i].path \notin reads

(* ================= main: the report over the record stream ================= *)
\* the records a walk may send, each under its own path; which of them
\* arrive, and in which order, is left open
Pool ==
    <<[Path |-> 1, Language |-> "c", SLOC |-> 1],
      [Path |-> 2, Language |-> "c", SLOC |-> 2],
      [Path |-> 3, Language |-> "c++", SLOC |-> 3],
      [Path |-> 4, Language |-> "c-header", SLOC |-> 2],
      [Path |-> 5, Language |-> "python", SLOC |-> 1],
      [Path |-> 6, Language |-> "", SLOC |-> 0]>>

\* the zero value of countRecord, and counts[l] of a Go map
ZeroCount == [language |-> "", linecount |-> 0, filecount |-> 0]

Lookup(cs, l) == IF l \in DOMAIN cs THEN cs[l] ELSE ZeroCount

\* counts[l] = tmp
Store(cs, l, tmp) == (l :> tmp) @@ cs

\* the body of the mainline loop for one record, without -i
Tally_overwrite(cs, tot, st) ==
    IF st.SLOC > 0
    THEN [counts |-> Store(cs, st.Language,
                           [language |-> st.Language,
                            linecount |-> st.SLOC,
                            filecount |-> Lookup(cs, st.Language).filecount + 1]),
          totals |-> [tot EXCEPT !.linecount = @ + st.SLOC,
                                 !.filecount = @ + 1]]
    ELSE [counts |-> cs, totals |-> tot]

Tally(cs, tot, st) ==
    IF st.SLOC > 0
    THEN [counts |-> Store(cs, st.Language,
                           [language |-> st.Language,
                            linecount |-> Lookup(cs, st.Language).linecount
                                              + st.SLOC,
                            filecount |-> Lookup(cs, st.Language).filecount + 1]),
          totals |-> [tot EXCEPT !.linecount = @ + st.SLOC,
                                 !.filecount = @ + 1]]
    ELSE [counts |-> cs, totals |-> tot]

cHeaderPriority == <<"c", "c++", "obj-c">>

\* the reassignment of the C headers: the first language of cHeaderPriority
\* that has lines takes the lines of c-header, and c-header is deleted
Reassign(cs) ==
    IF Lookup(cs, "c-header").linecount > 0
       /\ \E i \in DOMAIN cHeaderPriority :
              Lookup(cs, cHeaderPriority[i]).linecount > 0
    THEN LET i == CHOOSE h \in DOMAIN cHeaderPriority :
                      /\ Lookup(cs, cHeaderPriority[h]).linecount > 0
                      /\ \A j \in 1 .. h - 1 :
                             Lookup(cs, cHeaderPriority[j]).linecount = 0
             l == cHeaderPriority[i]
             tmp == [cs[l] EXCEPT !.linecount = @ + cs["c-header"].linecount]
         IN  [k \in DOMAIN cs \ {"c-header"} |-> IF k = l THEN tmp ELSE cs[k]]
    ELSE cs

\* st, more := <-pipeline with more true: one more record has arrived
ReceiveRecord(i) ==
    /\ totals.language = ""
    /\ \A j \in DOMAIN arrived : arrived[j] # i
    /\ arrived' = Append(arrived, i)
    /\ LET t == Tally(counts, totals, Pool[i])
       IN  counts' = t.counts /\ totals' = t.totals

\* the pipeline is closed: the headers are reassigned, totals is named "all"
Summarize ==
    /\ totals.language = ""
    /\ counts' = Reassign(counts)
    /\ totals' = [totals EXCEPT !.language = "all"]
    /\ UNCHANGED arrived

ReportNext ==
    \/ \E i \in DOMAIN Pool :
           ReceiveRecord(i) /\ UNCHANGED <<tvars, pvars, lastctx, records, crashed>>
    \/ Summarize /\ UNCHANGED <<tvars, pvars, lastctx, records, crashed>>

ReportInit == ClassInit

ReportSpec == ReportInit /\ [][ReportNext]_vars

(* ---------------- C25, C26: the totals of the report ---------------- *)
RECURSIVE TallyAll(_, _, _)
\* the loop over the records st[1], st[2], ... from the state (cs, tot)
TallyAll(cs, tot, sts) ==
    IF sts = <<>> THEN [counts |-> cs, totals |-> tot]
    ELSE LET t == Tally(cs, tot, Head(sts))
         IN  TallyAll(t.counts, t.totals, Tail(sts))

RECURSIVE InPathOrder(_)
\* the records of a set of paths, in the order of the paths
InPathOrder(S) ==
    IF S = {} THEN <<>>
    ELSE LET i == CHOOSE h \in S : \A j \in S : h <= j
         IN  <<Pool[i]>> \o InPathOrder(S \ {i})

Received == {arrived[j] : j \in DOMAIN arrived}

\* the counts before the reassignment
Tallied == TallyAll(<<>>, ZeroCount, InPathOrder(Received))

\* C25: the counts per language and the grand totals after the records have
\* arrived are those of the same records taken in the order of their paths:
\* they depend on which records arrived, not on the order of arrival.
C25_OrderIndependent ==
    totals.language = "" =>
        /\ counts = Tallied.counts
        /\ totals = Tallied.totals

\* two records of one language and one of another have arrived, the first of
\* them last
C25_Witness ==
    /\ totals.language = ""
    /\ Len(arrived) >= 3
    /\ arrived[Len(arrived)] = 1
    /\ 2 \in Received /\ 3 \in Received
    /\ counts["c"].linecount = 3 /\ counts["c"].filecount = 2

RECURSIVE SumOver(_, _, _)
SumOver(cs, S, field) ==
    IF S = {} THEN 0
    ELSE LET l == CHOOSE x \in S : TRUE
         IN  cs[l][field] + SumOver(cs, S \ {l}, field)

CFamily == {"c", "c++", "obj-c"}

\* the language among c, c++ and obj-c with the most lines before the
\* reassignment is l (0 lines: there is none)
Dominant(l) ==
    /\ l \in CFamily
    /\ Lookup(Tallied.counts, l).linecount > 0
    /\ \A k \in CFamily :
           Lookup(Tallied.counts, k).linecount
               <= Lookup(Tallied.counts, l).linecount

\* C26: in the summary the lines and files counted under c-header have gone
\* to the C-family language with the most lines, when there is one, and the
\* line counts and the file counts per language each sum to the totals.
C26_HeadersToDominant ==
    totals.language = "all" =>
        /\ \A l \in CFamily :
               Dominant(l) /\ Lookup(Tallied.counts, "c-header").linecount > 0 =>
                   /\ "c-header" \notin DOMAIN counts
                   /\ counts[l].linecount =
                          Tallied.counts[l].linecount
                              + Tallied.counts["c-header"].linecount
                   /\ counts[l].filecount =
                          Tallied.counts[l].filecount
                              + Tallied.counts["c-header"].filecount
        /\ SumOver(counts, DOMAIN counts, "linecount") = totals.linecount
        /\ SumOver(counts, DOMAIN counts, "filecount") = totals.filecount

\* what holds of the summary: the line counts sum to the total, and c-header
\* is gone when a C-family language has lines
LinesStillSum ==
    totals.language = "all" =>
        /\ SumOver(counts, DOMAIN counts, "linecount") = totals.linecount
        /\ (\E l \in CFamily : Dominant(l)) => "c-header" \notin DOMAIN counts

(* ---------------- C27-C29: the byte scanners, turn by turn ---------------- *)
RECURSIVE ScanTurns(_, _, _)
\* the turns of the loop of c_family_counter: the position of the byte read,
\* the byte, the state it is met in and the state ScanByte leaves
ScanTurns(s, b, syn) ==
    LET g == getachar(s, b)
        r == ScanByte(g.s, g.c, b, syn)
    IN  IF g.eof THEN <<>>
        ELSE <<[pos |-> s.pos, c |-> g.c, from |-> g.s, to |-> r.s]>>
                 \o ScanTurns(EndOfLine(r.s, r.c, b), b, syn)

RECURSIVE PascalTurns(_, _, _)
\* the same for the loop of pascalCounter
PascalTurns(s, b, bracketcomments) ==
    LET g == getachar(s, b)
        t == PascalByte(g.s, g.c, b, bracketcomments)
    IN  IF g.eof THEN <<>>
        ELSE <<[pos |-> s.pos, c |-> g.c, from |-> g.s, to |-> t]>>
                 \o PascalTurns(t, b, bracketcomments)

ByteScanned == Scanned /\ ScannedRule.kind \in {"c_family", "pascal"}

CScanned == Scanned /\ ScannedRule.kind = "c_family"

\* the scan as the counter starts it: ctx.setup(path) on a fresh context
Opened == setup(NewContext, records[1].file).ctx

ScannedSyntax == RowOf(genericLanguages, ScannedRule)

\* the state the scan of the recorded file ends in, and its turns
FinalScan ==
    IF ScannedRule.kind = "c_family"
    THEN c_family_scan(Opened, ScannedBytes, ScannedSyntax)
    ELSE pascal_scan(Opened, ScannedBytes,
                     RowOf(pascalLikes, ScannedRule).bracketcomments)

Turns ==
    IF ScannedRule.kind = "c_family"
    THEN ScanTurns(ScanStart(Opened), ScannedBytes, ScannedSyntax)
    ELSE PascalTurns(ScanStart(Opened), ScannedBytes,
                     RowOf(pascalLikes, ScannedRule).bracketcomments)

\* the line of the byte at position p: one more than the newlines before it
LineOf(b, p) == 1 + Cardinality({j \in 1 .. p - 1 : b[j] = NL})

\* the file ends inside a block comment, a string or a raw string
EndsInSpan == FinalScan.mode \in {"INCOMMENT", "INSTRING", "INMULTISTRING"}

\* the turn that opened the span the file ends in
OpeningTurn ==
    CHOOSE i \in DOMAIN Turns :
        /\ Turns[i].from.mode = "NORMAL" /\ Turns[i].to.mode # "NORMAL"
        /\ \A j \in i + 1 .. Len(Turns) : Turns[j].to.mode # "NORMAL"

\* the state the loop ends in, before the handling of EOF-without-EOL
LoopEnd ==
    IF ScannedRule.kind = "c_family"
    THEN ScanLoop(ScanStart(Opened), ScannedBytes, ScannedSyntax)
    ELSE PascalLoop(ScanStart(Opened), ScannedBytes,
                    RowOf(pascalLikes, ScannedRule).bracketcomments)

\* the count returned is the count of the loop and the pending line
CountsPending ==
    records[1].stat.SLOC = LoopEnd.sloc + (IF LoopEnd.nonblank THEN 1 ELSE 0)

\* C27: a byte scanner that reaches the end of the file inside a block
\* comment, a string or a raw string logs a diagnostic with the line on which
\* the span began, and returns the count with the pending line.
C27_UnterminatedSpanReported ==
    ByteScanned /\ EndsInSpan =>
        /\ FinalScan.log # <<>>
        /\ FinalScan.log[Len(FinalScan.log)].text
               \in {"terminated in comment", "terminated in string"}
        /\ FinalScan.log[Len(FinalScan.log)].line
               = LineOf(ScannedBytes, Turns[OpeningTurn].pos)
        /\ CountsPending

\* what holds: the C-family scanner reports an open block comment and an
\* open string with its line, and every byte scanner returns the count
CFamilyReported ==
    /\ CScanned /\ FinalScan.mode \in {"INCOMMENT", "INSTRING"} =>
           /\ FinalScan.log # <<>>
           /\ FinalScan.log[Len(FinalScan.log)].line
                  = LineOf(ScannedBytes, Turns[OpeningTurn].pos)
    /\ ByteScanned => CountsPending

\* the row with the newline warning switched the other way
OtherWarn(syn) == [syn EXCEPT !.eolwarn = ~@]

\* C28: diagnostics change no count.  A newline read in string mode leaves
\* the scanner in string mode, and the scan of a file with the row's
\* newline warning switched the other way differs in the log alone: the same
\* final state, the same count, the same context.
C28_WarningsChangeNothing ==
    CScanned =>
        /\ \A i \in DOMAIN Turns :
               Turns[i].from.mode = "INSTRING" /\ Turns[i].c = NL =>
                   Turns[i].to.mode = "INSTRING"
        /\ [FinalScan EXCEPT !.log = <<>>]
               = [c_family_scan(Opened, ScannedBytes, OtherWarn(ScannedSyntax))
                      EXCEPT !.log = <<>>]
        /\ c_family_counter(NewContext, records[1].file, ScannedSyntax)
               = c_family_counter(NewContext, records[1].file,
                                  OtherWarn(ScannedSyntax))

\* a string runs over a newline and is closed on a later line: the warning is
\* logged with the flag on and not with the flag off, and code follows
C28_Witness ==
    /\ CScanned
    /\ \E i \in DOMAIN Turns :
           /\ Turns[i].from.mode = "INSTRING" /\ Turns[i].c = NL
           /\ \E j \in i + 1 .. Len(Turns) :
                  Turns[j].from.mode = "INSTRING" /\ Turns[j].to.mode = "NORMAL"
    /\ \E k \in DOMAIN FinalScan.log : FinalScan.log[k].text = "newline in string"
    /\ c_family_scan(Opened, ScannedBytes, OtherWarn(ScannedSyntax)).log = <<>>
    /\ records[1].stat.SLOC >= 2

\* the byte that closes the span of a mode
Closer(mode, syn) == IF mode = "INSTRING" THEN DQ ELSE syn.multistring[1]

BeginsAt(p, m) == OccursAt(ScannedBytes, m, p)

RawStringHidesComment ==
    /\ CScanned
    /\ \E i \in DOMAIN Turns :
           /\ Turns[i].from.mode = "INMULTISTRING"
           /\ BeginsAt(Turns[i].pos, ScannedSyntax.eolcomment)
           /\ \E j \in i + 1 .. Len(Turns) : Turns[j].to.mode = "NORMAL"

(* ---------------- C30: the streams of a context ---------------- *)
\* C30: when Generic has returned, and so before filter sends the record,
\* every stream the context opened is closed, whichever scanners, verifiers,
\* generated-file filters and hashbang probes ran and wherever they
\* returned; and the context never had more than one stream open.
C30_StreamsClosed ==
    /\ lastctx.streams = 0
    /\ lastctx.peak <= 1
    /\ lastctx.rc # "open"

\* x.l holding lisp has been classified: the generated-file filter, the
\* verifier of the lex row that rejects it, and the scanner of the lisp row
\* each opened the file in turn
C30_Witness ==
    /\ records # <<>>
    /\ records[Len(records)].file = LispL
    /\ records[Len(records)].stat.Language = "lisp"
    /\ lastctx.opens >= 3
    /\ lastctx.peak = 1

\* ---------------------------------------------------------------------------
\* The latch and the work that follows it (visitFile, loccount.go:137-140 and
\* 163-193).

\* C31: once the first error is latched, no call of the walk function is
\* started and no record is sent: in every step taken with the latch set, the
\* calls made so far and the records sent so far stay what they were.
C31_NoCallAfterLatch ==
    [][terminated => (called' = called /\ emitted' = emitted)]_vars

\* the part of C31 about the items entered after the latch: a visit entered
\* with the latch set returns at once, without a call of the walk function
EnteredAfterLatchReturns ==
    [][\A w \in Workers :
          (terminated /\ wst[w] = "visit" /\ Top(w).pc = "enter"
             /\ stack'[w] # stack[w])
          => (called' = called /\ emitted' = emitted
                /\ Len(stack'[w]) < Len(stack[w]))]_vars

\* ---------------------------------------------------------------------------
\* The hand-over of a discovered subdirectory (visitFile, loccount.go:174-185).

\* the entries Lstat reports as directories
Subdirectory(c) == c # RootNode /\ LstatOf(kind[c]) # "fail" /\ InfoIsDir(kind[c])

\* the activations of visitFile on node c, over all workers
Visits(c) ==
    {<<w, j>> \in Workers \X (1 .. Cardinality(Nodes)) :
        j <= Len(stack[w]) /\ stack[w][j].node = c}

\* the places where directory c waits or is being visited
Places(c) ==
    Cardinality({i \in 1 .. Len(queue) : queue[i] = c}) + Cardinality(Visits(c))

\* the children the loop of an activation has left behind
Passed(f) ==
    {ChildNames(f.node)[k] : k \in {i \in 1 .. Len(ChildNames(f.node)) : i < f.i}}

\* C32: every subdirectory discovered during expansion is handed on exactly
\* once. No directory is handed on twice; none is in the queue and in a visit,
\* or twice in either, at the same moment; every subdirectory the loop of a
\* live visit has left behind was sent or visited in place; when a walk
\* without error has returned, every subdirectory of an expanded directory was
\* sent or visited in place and the walk function was called on it once; and
\* a worker at the select can always take its step, whatever the queue holds.
C32_HandedOnOnce ==
    /\ \A c \in Nodes : route[c] # "twice" /\ Places(c) <= 1
    /\ \A c \in Nodes : route[c] # "none" => Subdirectory(c)
    /\ \A w \in Workers : \A j \in 1 .. Len(stack[w]) :
          \A c \in Passed(stack[w][j]) :
             Subdirectory(c) => route[c] \in {"queued", "sync"}
    /\ (WalkDone /\ result = None /\ firstError = None) =>
          \A c \in Nodes :
             (Subdirectory(c) /\ Beneath(c)) =>
                 /\ route[c] \in {"queued", "sync"}
                 /\ kind[c] = "dir" => called[c] = 1
    /\ \A w \in Workers :
          (Alive /\ wst[w] = "visit" /\ Top(w).pc = "send") => ENABLED TrySend(w)

\* a worker found the queue full and visited one subdirectory in place, after
\* it had sent another, and the walk returned without error
C32_Witness ==
    /\ WalkDone /\ result = None /\ firstError = None
    /\ \E c, d \in Nodes :
          /\ c # d /\ ParentOf(c) = ParentOf(d)
          /\ route[c] = "queued" /\ route[d] = "sync"
          /\ called[c] = 1 /\ called[d] = 1

\* ---------------------------------------------------------------------------
\* The two close calls (Walk, loccount.go:207-222; main, 1694-1701) and the
\* sends (visitFile 176-180, filter 1516-1522).

\* no worker holds an item or is inside visitFile
WorkersAtRest == \A w \in Workers : wst[w] \in {"idle", "exited"} /\ stack[w] = <<>>

\* C33: no value is sent on a closed channel. When ws.v is closed the
\* outstanding count is zero, the queue is empty and no worker is inside a
\* visit, so none is at the select or before it; when the pipeline is closed
\* the walk has returned and no worker is inside a visit, so none can call the
\* filter; and no step puts a value on ws.v with ws.v closed before or after
\* the step, nor a record on the pipeline with the pipeline closed.
C33_NoSendOnClosed ==
    /\ [](qclosed => (active = 0 /\ queue = <<>> /\ WorkersAtRest))
    /\ [](pclosed => (walkpc = "returned" /\ WorkersAtRest))
    /\ [][(\E c \in Nodes : queue' = Append(queue, c))
             => (~qclosed /\ ~qclosed')]_vars
    /\ [][(emitted' # emitted \/ Len(pipeline') > Len(pipeline))
             => (~pclosed /\ ~pclosed')]_vars

\* both channels are closed after a walk that sent a directory on ws.v and
\* a record on the pipeline, and visited another directory in place
C33_Witness ==
    /\ qclosed /\ pclosed
    /\ \E c, d, n \in Nodes :
          route[c] = "queued" /\ route[d] = "sync" /\ emitted[n] = 1

\* ---------------------------------------------------------------------------
\* The Python scanner and the triple-quoted spans of one line (pythonCounter,
\* loccount.go:1144-1187; the expressions of init, 389-412).

\* the state of the loop of pythonCounter before line i of b is read
PyBefore(b, i) == PyRun(PyStart, Lines(UpTo(b, i - 1)))

\* line holds one triple-quoted span of marker q that opens at p and closes
\* at r on the same line, with text between the markers, and holds no other
\* quote and no #
EnclosedAt(line, q, p, r) ==
    /\ OccursAt(line, q, p) /\ OccursAt(line, q, r)
    /\ r > p + Len(q)
    /\ \A h \in 1 .. Len(line) :
          line[h] \in {DQ, SQ, "#"} => (h \in p .. p + 2 \/ h \in r .. r + 2)

\* the line without the span
Without(line, p, r) == SubSeq(line, 1, p - 1) \o SubSeq(line, r + 3, Len(line))

\* C34: in the Python scanner, outside a triple span, a triple-quoted span
\* that opens and closes on the same line, with any text between the markers,
\* is removed from the line and leaves the scanner outside a span: the line is
\* counted when text remains outside the span and the flags stay clear.
C34_OneLineTripleRemoved ==
    Scanned /\ ScannedRule.kind = "python" =>
        \A i \in 1 .. Len(Lines(ScannedBytes)) :
            \A q \in {DT, ST} : \A p, r \in 1 .. Len(LineAt(ScannedBytes, i)) :
                (~PyBefore(ScannedBytes, i).isintriple
                    /\ EnclosedAt(LineAt(ScannedBytes, i), q, p, r))
                => /\ PyNormalLine(LineAt(ScannedBytes, i))
                          = Without(LineAt(ScannedBytes, i), p, r)
                   /\ ~PyBefore(ScannedBytes, i + 1).isintriple
                   /\ ~PyBefore(ScannedBytes, i + 1).isincomment

\* the part of C34 the expression of init covers: a span with one character
\* between its markers
OneCharacterTripleRemoved ==
    Scanned /\ ScannedRule.kind = "python" =>
        \A i \in 1 .. Len(Lines(ScannedBytes)) :
            \A q \in {DT, ST} : \A p \in 1 .. Len(LineAt(ScannedBytes, i)) :
                (~PyBefore(ScannedBytes, i).isintriple
                    /\ EnclosedAt(LineAt(ScannedBytes, i), q, p, p + Len(q) + 1))
                => /\ PyNormalLine(LineAt(ScannedBytes, i))
                          = Without(LineAt(ScannedBytes, i), p, p + Len(q) + 1)
                   /\ ~PyBefore(ScannedBytes, i + 1).isintriple
                   /\ ~PyBefore(ScannedBytes, i + 1).isincomment
                   /\ Adds(ScannedRule, ScannedBytes, i) = 0

\* a one-character span on one line, met outside a span, and a statement after it
OneCharacterTripleScanned ==
    /\ Scanned /\ ScannedRule.kind = "python"
    /\ Len(Lines(ScannedBytes)) = 2
    /\ LineAt(ScannedBytes, 1) = DT \o <<"D">> \o DT \o <<NL>>
    /\ LineAt(ScannedBytes, 2) = <<"a", NL>>
    /\ records[1].stat.SLOC = 1


\* line i of b is read inside a triple span and holds the marker q that ends
\* the span; b holds no quote of the other kind and the line no #
EndsSpanAt(b, i, q) ==
    /\ PyBefore(b, i).isintriple
    /\ Index(LineAt(b, i), q) > 0
    /\ \A h \in 1 .. Len(b) : b[h] \in {DQ, SQ} => b[h] = q[1]
    /\ Index(LineAt(b, i), <<"#">>) = 0

\* C35: in the Python scanner, when a line inside a triple span holds the
\* terminating marker and another triple-quote begins on the remainder of the
\* line, the scanner is still inside a span after the line, its comment flag
\* as it was; when no other triple-quote begins on the remainder, both flags
\* are clear after the line.
C35_ReopenedSpanStays ==
    Scanned /\ ScannedRule.kind = "python" =>
        \A i \in 1 .. Len(Lines(ScannedBytes)) : \A q \in {DT, ST} :
            EndsSpanAt(ScannedBytes, i, q) =>
                IF triple_boundary(After(LineAt(ScannedBytes, i), q))
                THEN /\ PyBefore(ScannedBytes, i + 1).isintriple
                     /\ PyBefore(ScannedBytes, i + 1).isincomment
                            = PyBefore(ScannedBytes, i).isincomment
                ELSE /\ ~PyBefore(ScannedBytes, i + 1).isintriple
                     /\ ~PyBefore(ScannedBytes, i + 1).isincomment

\* what the scanner does: every line read inside a span that holds a marker
\* leaves both flags clear, a triple-quote on its remainder or not
EveryMarkerEndsSpan ==
    Scanned /\ ScannedRule.kind = "python" =>
        \A i \in 1 .. Len(Lines(ScannedBytes)) :
            (PyBefore(ScannedBytes, i).isintriple
                /\ triple_boundary(CutAt(LineAt(ScannedBytes, i), <<"#">>)))
            => /\ ~PyBefore(ScannedBytes, i + 1).isintriple
               /\ ~PyBefore(ScannedBytes, i + 1).isincomment

\* a span is opened on line 1, line 2 ends it and opens another, and the
\* statement on line 3 is counted
ReopenedSpanScanned ==
    /\ Scanned /\ ScannedRule.kind = "python"
    /\ Len(Lines(ScannedBytes)) = 3
    /\ LineAt(ScannedBytes, 1) = DT \o <<NL>>
    /\ LineAt(ScannedBytes, 2) = DT \o <<"D">> \o DT \o <<NL>>
    /\ LineAt(ScannedBytes, 3) = <<"a", NL>>
    /\ Adds(ScannedRule, ScannedBytes, 3) = 1

\* ---------------------------------------------------------------------------
\* The newline in the scanner of the Pascal family (pascalCounter,
\* loccount.go:1274-1307).

PascalScanned == Scanned /\ ScannedRule.kind = "pascal"

\* the physical lines with a byte that is not white space read in normal mode
\* and not opening a comment
CodeLines ==
    {LineOf(ScannedBytes, Turns[i].pos) :
        i \in {j \in DOMAIN Turns :
                  /\ Turns[j].from.mode = "NORMAL" /\ Turns[j].to.mode = "NORMAL"
                  /\ ~isspace(Turns[j].c)}}

\* C36: in the scanner of the Pascal family every newline read, in a comment
\* as well, ends the physical line: the count goes up by one when nonblank is
\* set, and nonblank is clear afterwards; so the count returned is the number
\* of physical lines with a non-blank byte outside comments.
C36_EveryNewlineEndsLine ==
    PascalScanned =>
        /\ \A i \in DOMAIN Turns :
              Turns[i].c = NL =>
                  /\ ~Turns[i].to.nonblank
                  /\ Turns[i].to.sloc =
                         Turns[i].from.sloc
                           + (IF Turns[i].from.nonblank THEN 1 ELSE 0)
        /\ records[1].stat.SLOC = Cardinality(CodeLines)

\* what the scanner does: a newline read in normal mode ends the line, a
\* newline read inside a comment changes nothing
NewlineInCommentIgnored ==
    PascalScanned =>
        \A i \in DOMAIN Turns :
            Turns[i].c = NL =>
                IF Turns[i].from.mode = "NORMAL"
                THEN /\ ~Turns[i].to.nonblank
                     /\ Turns[i].to.sloc =
                            Turns[i].from.sloc
                              + (IF Turns[i].from.nonblank THEN 1 ELSE 0)
                ELSE Turns[i].to = Turns[i].from

\* code before a comment that runs over the line end and code after its end:
\* two lines of code, one counted
TwoCodeLinesOneCounted ==
    /\ PascalScanned /\ ScannedRule.name = "pascal"
    /\ ScannedBytes = <<"a", "{", NL, "}", "a", NL>>
    /\ Cardinality(CodeLines) = 2
    /\ records[1].stat.SLOC = 1

\* ---------------------------------------------------------------------------
\* The two patterns of the Fortran scanner (init, loccount.go:439-460;
\* fortranCounter, 1320-1332).

FortranScanned == Scanned /\ ScannedRule.kind = "fortran"

ScannedDialect == RowOf(fortranLikes, ScannedRule).dialect

\* syntax.comment.Match(line) and syntax.nocomment.Match(line) for the row
\* of the scanned file
CommentMatch(line) ==
    IF ScannedDialect = "f90" THEN f90comment(line) ELSE f77comment(line)
NocommentMatch(line) ==
    IF ScannedDialect = "f90" THEN f90nocomment(line) ELSE f77nocomment(line)

\* line is a directive written as a comment: !omp$ or !hpf$ from column 1
DirectiveLine(line) == OccursAt(line, <<"!">>, 1) /\ Directive(line, 2)

\* what the two patterns decide for every line read, and what follows for a
\* comment line and for a directive
PatternsDecide(i) ==
    /\ Adds(ScannedRule, ScannedBytes, i) =
           (IF NocommentMatch(LineAt(ScannedBytes, i))
                  \/ ~CommentMatch(LineAt(ScannedBytes, i))
            THEN 1 ELSE 0)
    /\ (IsCommentLine(ScannedRule, LineAt(ScannedBytes, i))
            /\ ~DirectiveLine(LineAt(ScannedBytes, i)))
       => Adds(ScannedRule, ScannedBytes, i) = 0
    /\ DirectiveLine(LineAt(ScannedBytes, i))
       => Adds(ScannedRule, ScannedBytes, i) = 1

\* C37: in the Fortran scanner a line is counted iff it matches the directive
\* pattern or fails to match the comment-or-blank pattern; an empty or
\* blank line adds 0, a comment line adds 0 and a directive line that looks
\* like a comment adds 1.
C37_FortranLineRule ==
    FortranScanned =>
        \A i \in 1 .. Len(Lines(ScannedBytes)) :
            /\ PatternsDecide(i)
            /\ IsBlankLine(LineAt(ScannedBytes, i))
               => Adds(ScannedRule, ScannedBytes, i) = 0

\* the part of C37 that holds: the patterns decide, comments add 0 and
\* directives add 1
FortranPatternsDecide ==
    FortranScanned => \A i \in 1 .. Len(Lines(ScannedBytes)) : PatternsDecide(i)

\* what the scanner does with an empty or blank line: it counts it
BlankFortranLineCounted ==
    FortranScanned =>
        \A i \in 1 .. Len(Lines(ScannedBytes)) :
            IsBlankLine(LineAt(ScannedBytes, i))
            => Adds(ScannedRule, ScannedBytes, i) = 1

\* a file of a statement, an empty line and a comment, counted 2
BlankFortranLineScanned ==
    /\ FortranScanned
    /\ ScannedBytes = <<"a", NL, NL, "!", "c", NL>>
    /\ records[1].stat.SLOC = 2

\* ---------------------------------------------------------------------------
\* The single-character literals of the C family (c_family_counter,
\* loccount.go:995-1007 and 1070-1079).

\* the turns that read a single quote in normal mode, outside a lex file
QuoteTurns ==
    {i \in DOMAIN Turns :
        /\ Turns[i].c = SQ /\ Turns[i].from.mode = "NORMAL"
        /\ ~Turns[i].from.lexfile}

\* b holds at p a literal of n bytes: quote, one character, quote; or quote,
\* backslash, one character, quote
LiteralAt(b, p, n) ==
    /\ p + n - 1 <= Len(b)
    /\ b[p] = SQ /\ b[p + n - 1] = SQ
    /\ \/ n = 3 /\ b[p + 1] \notin {SQ, BS, NL}
       \/ n = 4 /\ b[p + 1] = BS /\ b[p + 2] # NL

\* the newline that ends the line of position p, 0 when the line has none
LineEnd(b, p) ==
    IF \E j \in p .. Len(b) : b[j] = NL
    THEN CHOOSE j \in p .. Len(b) : b[j] = NL /\ \A h \in p .. j - 1 : b[h] # NL
    ELSE 0

\* the turn of a quote leaves the mode alone, and after a literal the scanner
\* stands at the byte that follows the closing quote
LiteralConsumed(i) ==
    /\ Turns[i].to.mode = "NORMAL"
    /\ Turns[i].to.nonblank
    /\ \A n \in {3, 4} :
          LiteralAt(ScannedBytes, Turns[i].pos, n)
          => Turns[i].to.pos = Turns[i].pos + n

\* the turn of a quote does not read past the newline of its line, and a
\* newline it reads is the byte the test for the line end sees
LineEndKept(i) ==
    LET n == LineEnd(ScannedBytes, Turns[i].pos)
    IN  (n > 0 /\ Turns[i].to.pos > n) =>
            /\ Turns[i].to.pos = n + 1
            /\ ScanByte(Turns[i].from, Turns[i].c, ScannedBytes,
                        ScannedSyntax).c = NL

\* C38: in the C-family scanner a single-character literal never enters
\* string mode and never puts the scan out of step: after a literal with a
\* plain character, an escaped character, a double quote, an escaped quote or
\* an escaped backslash the scanner is in normal mode at the byte after the
\* closing quote, and the newline of the line on which a quote was opened is
\* still taken as a line end.
C38_CharLiteralInStep ==
    CScanned => \A i \in QuoteTurns : LiteralConsumed(i) /\ LineEndKept(i)

\* the part of C38 about the five literals
LiteralsInStep ==
    CScanned => \A i \in QuoteTurns : LiteralConsumed(i)

\* a file with the escaped quote and the escaped backslash, each followed by
\* a statement that is counted
LiteralsScanned ==
    /\ CScanned
    /\ ScannedBytes = <<SQ, BS, SQ, SQ, NL, SQ, BS, BS, SQ, NL, "a", NL>>
    /\ records[1].stat.SLOC = 3

\* a quote that ends its line: the newline is swallowed and two lines of
\* code count 1
QuoteAtLineEndScanned ==
    /\ CScanned
    /\ ScannedBytes = <<"a", SQ, NL, "a", NL>>
    /\ records[1].stat.SLOC = 1

\* ---------------------------------------------------------------------------
\* The last line without a newline (c_family_counter, loccount.go:1081-1085;
\* pascalCounter, 1303-1307; munchline, 572-584).

\* C39: in the byte scanners (C family and Pascal family) a last line that
\* does not end with a newline is counted as if it did: the count of the file
\* is the count of the file with a newline added at its end.
C39_LastLineCounted ==
    (ByteScanned /\ ~Terminated(ScannedBytes)) =>
        records[1].stat.SLOC = Count(ScannedRule, ScannedBytes \o <<NL>>)

\* a file of three statements, the last without its newline, counted 3
C39_Witness ==
    /\ ByteScanned /\ ~Terminated(ScannedBytes)
    /\ PhysicalLines(ScannedBytes) = MaxLines
    /\ records[1].stat.SLOC = MaxLines
    /\ Count(ScannedRule, ScannedBytes \o <<NL>>) = MaxLines


\* b up to its last newline: the lines munchline returns
Whole(b) == UpTo(b, Cardinality(NewlinesOf(b)))

\* what the verifiers and the probes that read lines answer for a file
\* holding the bytes b: really_is_lex, really_is_expect, the generated-file
\* filter with the comment leader #, and the hashbang probe for sh on a file
\* with the executable bits
ProbeAnswers(b) ==
    << really_is_lex(NewContext, File("x", ".l", FALSE, TRUE, b)).val,
       really_is_expect(NewContext, File("x", ".exp", FALSE, TRUE, b)).val,
       was_generated_automatically(NewContext, File("x", ".sh", FALSE, TRUE, b),
                                   <<"#">>).val,
       hashbang(NewContext, File("x", "", TRUE, TRUE, b), "sh").val >>

\* C40: in the line-based scanners (generic, Python, Perl, Fortran) and in
\* the verifiers a last line without a newline is never read: the count is
\* the count of the file cut after its last newline, and the verifiers answer
\* as they do for the file cut there, whatever the last line holds.
C40_PartialLineUnread ==
    (Scanned /\ ~Terminated(ScannedBytes)) =>
        /\ LineBased(ScannedRule) =>
               records[1].stat.SLOC = Count(ScannedRule, Whole(ScannedBytes))
        /\ ProbeAnswers(ScannedBytes) = ProbeAnswers(Whole(ScannedBytes))

\* a statement and a last line %% without its newline: counted 1, not taken
\* for lex; with the newline the count is 2 and the file is taken for lex
C40_Witness ==
    /\ Scanned /\ ScannedRule.kind = "generic"
    /\ ScannedBytes = <<"a", NL, "%", "%">>
    /\ records[1].stat.SLOC = 1
    /\ Count(ScannedRule, ScannedBytes \o <<NL>>) = 2
    /\ ~ProbeAnswers(ScannedBytes)[1]
    /\ ProbeAnswers(ScannedBytes \o <<NL>>)[1]

\* the same for the other probes: a last line that would make the file
\* expect, generated or a shell script had it a newline
UnreadMarkerScanned ==
    /\ Scanned /\ ScannedRule.kind = "generic" /\ ~Terminated(ScannedBytes)
    /\ PhysicalLines(ScannedBytes) = 1
    /\ \E k \in 2 .. 4 :
          /\ ~ProbeAnswers(ScannedBytes)[k]
          /\ ProbeAnswers(ScannedBytes \o <<NL>>)[k]

====
